---- MODULE Spec2Model ----
(***************************************************************************)
(* The tabular cleaning-and-aggregation pipelines of the analysis scripts  *)
(* of FDV-DV-25: each script loads a survey table, filters invalid codes,  *)
(* derives fields, groups by keys and averages.                            *)
(*                                                                         *)
(* A table (pandas DataFrame) is a sequence of records.  A cell of a       *)
(* column that can hold a missing value is NaN (the empty tuple) or        *)
(* <<v>>; a float cell is NaN or the reduced fraction <<num, den>>.        *)
(***************************************************************************)
EXTENDS Integers, Sequences, FiniteSets, TLC

VARIABLES
    script,             \* which script of the repository is running
    pc,                 \* position in the main script
    df,                 \* DataProcessor.df (raw table)
    df_chart,           \* bar/line DataProcessor.df_chart
    grouped,            \* bar/line DataProcessor.grouped
    means,              \* bar DataProcessor.means
    total_n,            \* the N handed to the footnote
    df_bg,              \* DataManager.df_bg (raw Bulgaria table)
    df_eu,              \* DataManager.df_eu (raw Europe table)
    df_bg_clean,        \* DataManager.df_bg_clean
    df_eu_clean,        \* DataManager.df_eu_clean
    avg_life_bg_full,   \* DataManager.avg_life_bg_full
    avg_life_eu_full,   \* DataManager.avg_life_eu_full
    data_labels,        \* the value labels written by Plotter._add_data_labels
    df_clean,           \* ridgeline DataProcessor.df_clean
    column,             \* RidgePlotter.column
    group_counts,       \* create_plot: rows per education label
    avg_values,         \* create_plot: mean of the column per education label
    valid_df,           \* openness DataProcessor.valid_df
    reversals,          \* how many times reverse_scale has run
    saved,              \* the image files written by savefig
    printed,            \* the messages printed, in order
    xticks,             \* bar/line: the category drawn under each x_labels entry
    avg_lines,          \* create_plot: the labels whose average line is drawn
    avg_bg,             \* inspect_data: avg_bg
    avg_eu,             \* inspect_data: avg_eu
    comparison,         \* inspect_data: comparison
    first_run,          \* the outputs of the earlier runs on the same input
    raised              \* the call whose exception ended the run

chartVars == <<df_chart, grouped, means>>
lifeVars == <<df_bg, df_eu, df_bg_clean, df_eu_clean, avg_life_bg_full,
              avg_life_eu_full, data_labels>>
ridgeVars == <<df_clean, column, group_counts, avg_values>>
openVars == <<valid_df, reversals>>
outVars == <<saved, printed>>
figVars == <<xticks, avg_lines>>
inspectVars == <<avg_bg, avg_eu, comparison>>
restVars == <<outVars, figVars, inspectVars, first_run>>
\* what the data-processing steps of every script leave alone
plotVars == <<restVars, raised>>
notChart == <<lifeVars, ridgeVars, openVars, plotVars>>
notLife == <<df, chartVars, ridgeVars, openVars, plotVars>>
notRidge == <<chartVars, lifeVars, openVars, plotVars>>
notOpen == <<chartVars, lifeVars, ridgeVars, plotVars>>
\* the variables of the data-processing steps
dataVars == <<df, total_n, chartVars, lifeVars, ridgeVars, openVars>>
vars == <<script, pc, dataVars, plotVars>>

\* ---------------------------------------------------------------- bounds
MaxRows == 2            \* rows of an input table of the chart scripts
MaxShortRows == 1       \* rows of an input table that lacks a column

\* ------------------------------------------------------- missing values
None == "None"          \* Python None of an attribute not yet computed
NaN == <<>>             \* missing cell (None / NaN of pandas)
Val(v) == <<v>>         \* present cell of a column that can hold NaN
isna(c) == c = NaN
notna(c) == c # NaN

\* --------------------------------------------------- exact float values
Abs(n) == IF n < 0 THEN -n ELSE n

RECURSIVE GCD(_, _)
GCD(a, b) == IF b = 0 THEN a ELSE GCD(b, a % b)

\* the value n / d (d > 0) in lowest terms; g is their greatest common divisor
Frac(n, d) ==
    CHOOSE f \in {IF g = 0 THEN <<0, 1>> ELSE <<n \div g, d \div g>> :
                    g \in {GCD(Abs(n), d)}} : TRUE
Float(x) == <<x, 1>>
FAdd(a, b) ==
    CHOOSE f \in {Frac(x[1] * y[2] + y[1] * x[2], x[2] * y[2]) :
                    x \in {a}, y \in {b}} : TRUE

\* the sum of the floats xs[i], xs[i+1], ...
RECURSIVE FSumFrom(_, _)
FSumFrom(xs, i) == IF i > Len(xs) THEN Float(0) ELSE FAdd(xs[i], FSumFrom(xs, i + 1))
FSum(xs) == FSumFrom(xs, 1)

\* (variant: Series.sum() in place of Series.mean())
sum_not_mean(xs) == LET ys == SelectSeq(xs, notna) IN
                    IF ys = <<>> THEN NaN ELSE FSum(ys)
\* Series.mean(): the missing cells are skipped; no cell left gives NaN
mean(xs) ==
    CHOOSE m \in {IF ys = <<>> THEN NaN
                  ELSE CHOOSE f \in {Frac(total[1], total[2] * Len(ys)) :
                                       total \in {FSum(ys)}} : TRUE :
                  ys \in {SelectSeq(xs, notna)}} : TRUE

\* ------------------------------------------------------ table helpers
Column(t, c) == [i \in 1..Len(t) |-> t[i][c]]
Rows(t) == {t[i] : i \in 1..Len(t)}
Range(s) == {s[i] : i \in 1..Len(s)}
TablesOf(R, n) == UNION {[1..k -> R] : k \in 0..n}
\* the tables of 1..n rows over the records R whose file has no column c
TablesWithout(R, c, n) ==
    UNION {[1..k -> {[f \in DOMAIN r \ {c} |-> r[f]] : r \in R}] : k \in 1..n}
\* df.columns (an empty table of the inputs has the columns named in all)
Columns(t, all) == IF t = <<>> THEN all ELSE DOMAIN t[1]

\* Series.between(lo, hi), both ends included
between(x, lo, hi) == lo <= x /\ x <= hi

\* the elements of S as a sequence in ascending order of rank (one-to-one on
\* S): the i-th entry is the element with i - 1 elements of lower rank
SortBy(S, rank) ==
    [i \in 1..Cardinality(S) |->
        CHOOSE x \in S : Cardinality({y \in S : rank[y] < rank[x]}) = i - 1]

\* ------------------------------------------- 1_bar_chart / 1_line_chart
StflifeCodes == {-1, 0, 10, 11}
RlgblgCodes == {1, 2, 7}
SclmeetCodes == {1, 7, 8}
ChartRecords == [cntry : {"BG"}, stflife : StflifeCodes,
                 rlgblg : RlgblgCodes, sclmeet : SclmeetCodes]
ChartColumns == {"stflife", "rlgblg", "sclmeet"}
ChartTables ==
    TablesOf(ChartRecords, MaxRows)
    \cup UNION {TablesWithout(ChartRecords, c, MaxShortRows) : c \in ChartColumns}

\* string order of the two labels: 'Non-religious' < 'Religious'
LabelRank(l) == IF l = "Non-religious" THEN 1 ELSE 2

\* df[columns].copy()
SelectColumns(t, cols) == [i \in 1..Len(t) |-> [c \in cols |-> t[i][c]]]

\* (variant: the lower bound of the scale is not tested)
bar_stflife_lambda_no_lower(x) == IF x <= 10 THEN Float(x) ELSE NaN
\* lambda x: x if 0 <= x <= 10 else None
bar_stflife_lambda(x) == IF 0 <= x /\ x <= 10 THEN Float(x) ELSE NaN
\* lambda x: 'Religious' if x == 1 else 'Non-religious' if x == 2 else None
bar_religious_lambda(x) == IF x = 1 THEN Val("Religious")
                           ELSE IF x = 2 THEN Val("Non-religious") ELSE NaN

ChartRow(r, s, l) == [stflife |-> s, rlgblg |-> r.rlgblg,
                      sclmeet |-> r.sclmeet, religious |-> l]
bar_sclmeet_ok(r) == between(r.sclmeet, 1, 7)
chart_dropna(r) == notna(r.stflife) /\ notna(r.religious)

\* the two .apply(lambda) assignments, made on every row of the table
bar_applied(t) == [i \in 1..Len(t) |->
                     ChartRow(t[i], bar_stflife_lambda(t[i].stflife),
                              bar_religious_lambda(t[i].rlgblg))]
\* then the sclmeet filter, then dropna
bar_clean_data(t) ==
    LET ranged == SelectSeq(bar_applied(t), bar_sclmeet_ok)
    IN SelectSeq(ranged, chart_dropna)

\* (variant: the ends of the scale are left out)
line_stflife_lambda_strict(x) == IF 0 < x /\ x < 10 THEN Float(x) ELSE NaN
line_stflife_lambda(x) == IF 0 <= x /\ x <= 10 THEN Float(x) ELSE NaN
line_religious_lambda(x) == IF x = 1 THEN Val("Religious")
                            ELSE IF x = 2 THEN Val("Non-religious") ELSE NaN
line_sclmeet_ok(r) == between(r.sclmeet, 1, 7)

line_applied(t) == [i \in 1..Len(t) |->
                      ChartRow(t[i], line_stflife_lambda(t[i].stflife),
                               line_religious_lambda(t[i].rlgblg))]
line_clean_data(t) ==
    LET ranged == SelectSeq(line_applied(t), line_sclmeet_ok)
    IN SelectSeq(ranged, chart_dropna)

\* the rows of t with the key <<sclmeet, religious>> = k
ChartGroup(t, k) ==
    LET In(r) == r.sclmeet = k[1] /\ r.religious = Val(k[2]) IN SelectSeq(t, In)
\* groupby drops the rows whose key is missing; one key per distinct value
ChartKeys(t) == {<<r.sclmeet, r.religious[1]>> : r \in {x \in Rows(t) : notna(x.religious)}}
GroupedRow(t, k) == [sclmeet |-> k[1], religious |-> k[2],
                     stflife |-> mean(Column(ChartGroup(t, k), "stflife"))]

\* groupby(['sclmeet', 'religious'])['stflife'].mean().reset_index()
bar_grouped(t) ==
    LET K == ChartKeys(t)
        order == SortBy(K, [k \in K |-> 2 * k[1] + LabelRank(k[2])])
    IN [i \in 1..Len(order) |-> GroupedRow(t, order[i])]

\* (variant: the mean of the means of the group's sclmeet categories)
bar_means_of_category_means(t) ==
    LET L == {k[2] : k \in ChartKeys(t)}
        Of(l) == LET In(g) == g.religious = l IN SelectSeq(bar_grouped(t), In)
    IN [l \in L |-> mean(Column(Of(l), "stflife"))]
\* groupby('religious')['stflife'].mean().to_dict()
bar_means(t) ==
    LET L == {k[2] : k \in ChartKeys(t)}
        Of(l) == LET In(r) == r.religious = Val(l) IN SelectSeq(t, In)
    IN [l \in L |-> mean(Column(Of(l), "stflife"))]

\* (variant: the keys in the order of the bar chart script)
line_grouped_sclmeet_first(t) ==
    LET K == ChartKeys(t)
        order == SortBy(K, [k \in K |-> 2 * k[1] + LabelRank(k[2])])
    IN [i \in 1..Len(order) |-> GroupedRow(t, order[i])]
\* groupby(['religious', 'sclmeet'])['stflife'].mean().reset_index()
line_grouped(t) ==
    LET K == ChartKeys(t)
        top == 1 + Cardinality({k[1] : k \in K})
        pos == [s \in {k[1] : k \in K} |-> Cardinality({k[1] : k \in {j \in K : j[1] < s}})]
        order == SortBy(K, [k \in K |-> top * LabelRank(k[2]) + pos[k[1]]])
    IN [i \in 1..Len(order) |-> GroupedRow(t, order[i])]

bar_load_data ==
    /\ script = "bar" /\ pc = "start"
    /\ \/ \E t \in ChartTables : df' = t /\ pc' = "loaded" /\ UNCHANGED raised
       \/ pc' = "error" /\ raised' = "read_csv(self.file_path)" /\ UNCHANGED df
    /\ UNCHANGED <<script, df_chart, grouped, means, total_n,
                   lifeVars, ridgeVars, openVars, restVars>>

\* (variant: the rows of a table without the columns are dropped silently)
bar_extract_variables_skips_missing ==
    /\ script = "bar" /\ pc = "loaded"
    /\ df_chart' = IF ChartColumns \subseteq Columns(df, ChartColumns)
                   THEN SelectColumns(df, ChartColumns) ELSE <<>>
    /\ pc' = "extracted"
    /\ UNCHANGED <<script, df, grouped, means, total_n, notChart>>

\* self.df[columns] raises KeyError when a column is not in the table
bar_extract_variables ==
    /\ script = "bar" /\ pc = "loaded"
    /\ IF ChartColumns \subseteq Columns(df, ChartColumns)
       THEN /\ df_chart' = SelectColumns(df, ChartColumns)
            /\ pc' = "extracted"
            /\ UNCHANGED raised
       ELSE /\ pc' = "error"
            /\ raised' = "KeyError in extract_variables"
            /\ UNCHANGED df_chart
    /\ UNCHANGED <<script, df, grouped, means, total_n,
                   lifeVars, ridgeVars, openVars, restVars>>

bar_clean ==
    /\ script = "bar" /\ pc = "extracted"
    /\ df_chart' = bar_clean_data(df_chart)
    /\ pc' = "cleaned"
    /\ UNCHANGED <<script, df, grouped, means, total_n, notChart>>

\* (variant: the aggregation raises when no row is left)
bar_aggregate_data_raises_on_empty ==
    /\ script = "bar" /\ pc = "cleaned"
    /\ IF df_chart = <<>>
       THEN pc' = "error" /\ UNCHANGED <<grouped, means>>
       ELSE /\ grouped' = bar_grouped(df_chart)
            /\ means' = bar_means(df_chart)
            /\ pc' = "aggregated"
    /\ UNCHANGED <<script, df, df_chart, total_n, notChart>>

\* (variant: the rows of grouped come in either order of the keys)
bar_aggregate_data_any_order ==
    /\ script = "bar" /\ pc = "cleaned"
    /\ \/ grouped' = bar_grouped(df_chart)
       \/ grouped' = [i \in 1..Len(bar_grouped(df_chart)) |->
                        bar_grouped(df_chart)[Len(bar_grouped(df_chart)) + 1 - i]]
    /\ means' = bar_means(df_chart)
    /\ pc' = "aggregated"
    /\ UNCHANGED <<script, df, df_chart, total_n, notChart>>

bar_aggregate_data ==
    /\ script = "bar" /\ pc = "cleaned"
    /\ grouped' = bar_grouped(df_chart)
    /\ means' = bar_means(df_chart)
    /\ pc' = "aggregated"
    /\ UNCHANGED <<script, df, df_chart, total_n, notChart>>

bar_get_total_observations ==
    /\ script = "bar" /\ pc = "aggregated"
    /\ total_n' = Len(df_chart)
    /\ pc' = "counted"
    /\ UNCHANGED <<script, df, df_chart, grouped, means, notChart>>

line_load_data ==
    /\ script = "line" /\ pc = "start"
    /\ \/ \E t \in ChartTables : df' = t /\ pc' = "loaded" /\ UNCHANGED raised
       \/ pc' = "error" /\ raised' = "read_csv(self.file_path)" /\ UNCHANGED df
    /\ UNCHANGED <<script, df_chart, grouped, means, total_n,
                   lifeVars, ridgeVars, openVars, restVars>>

\* self.df[columns] raises KeyError when a column is not in the table
line_extract_variables ==
    /\ script = "line" /\ pc = "loaded"
    /\ IF ChartColumns \subseteq Columns(df, ChartColumns)
       THEN /\ df_chart' = SelectColumns(df, ChartColumns)
            /\ pc' = "extracted"
            /\ UNCHANGED raised
       ELSE /\ pc' = "error"
            /\ raised' = "KeyError in extract_variables"
            /\ UNCHANGED df_chart
    /\ UNCHANGED <<script, df, grouped, means, total_n,
                   lifeVars, ridgeVars, openVars, restVars>>

line_clean ==
    /\ script = "line" /\ pc = "extracted"
    /\ df_chart' = line_clean_data(df_chart)
    /\ pc' = "cleaned"
    /\ UNCHANGED <<script, df, grouped, means, total_n, notChart>>

line_aggregate_data ==
    /\ script = "line" /\ pc = "cleaned"
    /\ grouped' = line_grouped(df_chart)
    /\ pc' = "aggregated"
    /\ UNCHANGED <<script, df, df_chart, means, total_n, notChart>>

line_get_total_observations ==
    /\ script = "line" /\ pc = "aggregated"
    /\ total_n' = Len(df_chart)
    /\ pc' = "counted"
    /\ UNCHANGED <<script, df, df_chart, grouped, means, notChart>>

\* the main script's x_labels, one per socializing category 1..7
x_labels == <<"Never", "Less than once a month", "Once a month",
              "Several times a month", "Once a week",
              "Several times a week", "Every day">>
\* the distinct sclmeet values of the plotted table, ascending
grouped_categories(g) ==
    LET S == {g[i].sclmeet : i \in 1..Len(g)} IN SortBy(S, [c \in S |-> c])

\* sns.barplot(x='sclmeet') puts the categories that occur in grouped at the
\* positions 0, 1, ... in ascending order; plt.xticks(ticks=range(0, 7),
\* labels=self.x_labels) writes the j-th label under the j-th position
bar_xticks(g) ==
    [j \in 1..Len(x_labels) |->
        [label |-> x_labels[j],
         sclmeet |-> IF j <= Len(grouped_categories(g))
                     THEN Val(grouped_categories(g)[j]) ELSE NaN]]
\* sns.lineplot(x='sclmeet') draws on a numeric axis; plt.xticks(
\* ticks=range(1, 8), labels=self.x_labels) writes the j-th label at x = j
line_xticks(g) ==
    [j \in 1..Len(x_labels) |->
        [label |-> x_labels[j],
         sclmeet |-> IF j \in Range(grouped_categories(g)) THEN Val(j) ELSE NaN]]

\* plotter.create_bar_plot().customize_plot(total_n)
bar_customize_plot ==
    /\ script = "bar" /\ pc = "counted"
    /\ xticks' = bar_xticks(grouped)
    /\ pc' = "customized"
    /\ UNCHANGED <<script, dataVars, outVars, avg_lines, inspectVars, first_run, raised>>

\* (variant: the image is written although load_data has failed)
bar_save_and_show_plot_after_error ==
    /\ script = "bar" /\ pc \in {"customized", "error"}
    /\ saved' = saved \cup {"assignment_1/1_bar_chart.png"}
    /\ pc' = "saved"
    /\ UNCHANGED <<script, dataVars, printed, figVars, inspectVars, first_run, raised>>

bar_save_and_show_plot ==
    /\ script = "bar" /\ pc = "customized"
    /\ saved' = saved \cup {"assignment_1/1_bar_chart.png"}
    /\ pc' = "saved"
    /\ UNCHANGED <<script, dataVars, printed, figVars, inspectVars, first_run, raised>>

bar_print ==
    /\ script = "bar" /\ pc = "saved"
    /\ printed' = Append(printed, "Final clean bar chart saved with dynamic N!")
    /\ pc' = "done"
    /\ UNCHANGED <<script, dataVars, saved, figVars, inspectVars, first_run, raised>>

\* plotter.create_line_plot().customize_plot(total_n)
line_customize_plot ==
    /\ script = "line" /\ pc = "counted"
    /\ xticks' = line_xticks(grouped)
    /\ pc' = "customized"
    /\ UNCHANGED <<script, dataVars, outVars, avg_lines, inspectVars, first_run, raised>>

line_save_and_show_plot ==
    /\ script = "line" /\ pc = "customized"
    /\ saved' = saved \cup {"assignment_1/1_line_chart.png"}
    /\ pc' = "saved"
    /\ UNCHANGED <<script, dataVars, printed, figVars, inspectVars, first_run, raised>>

line_print ==
    /\ script = "line" /\ pc = "saved"
    /\ printed' = Append(printed, "Line chart with dynamic N saved!")
    /\ pc' = "done"
    /\ UNCHANGED <<script, dataVars, saved, figVars, inspectVars, first_run, raised>>

\* --------------------------------------- 3_life_satisfaction_bulgaria_eu
MaxEuRows == 1          \* rows of the Europe input table
EssRounds == {1, 2, 12}
LifeCodes == {-1, 0, 10, 11}
LifeRecords == [essround : EssRounds, stflife : LifeCodes]
EuRecords == [essround : {1, 12}, stflife : {0, 11}]
BgTables == TablesOf(LifeRecords, MaxRows)
EuTables == TablesOf(EuRecords, MaxEuRows)

ESS_ROUND_INFO ==
    [k \in 1..11 |-> <<2000 + 2 * k, k \in {3, 4, 5, 6, 9, 10}>>]
\* {k: v[0] for k, v in ess_round_info.items()}
ess_round_to_year == [k \in DOMAIN ESS_ROUND_INFO |-> ESS_ROUND_INFO[k][1]]
\* sorted(self.ess_round_to_year.values())
ess_years ==
    LET Y == {ess_round_to_year[k] : k \in DOMAIN ess_round_to_year}
    IN SortBy(Y, [y \in Y |-> y])

\* Series.map(dict): a key the dict lacks maps to NaN
map_year(x) == IF x \in DOMAIN ess_round_to_year
               THEN Val(ess_round_to_year[x]) ELSE NaN
\* df['year'] = df['essround'].map(self.ess_round_to_year)
with_year(t) == [i \in 1..Len(t) |->
                   [essround |-> t[i].essround, stflife |-> t[i].stflife,
                    year |-> map_year(t[i].essround)]]
\* pd.read_csv of the file again: the table without the column the run added
file_table(t) == [i \in 1..Len(t) |->
                    [essround |-> t[i].essround, stflife |-> t[i].stflife]]
\* df[df['stflife'].between(0, 10, inclusive='both')].copy()
life_stflife_ok(r) == between(r.stflife, 0, 10)
life_clean(t) == SelectSeq(t, life_stflife_ok)

\* groupby('year')['stflife'].mean().reset_index(): the rows whose year is
\* missing belong to no group; one row per year, ascending
life_group(t, y) == LET In(r) == r.year = Val(y) IN SelectSeq(t, In)
life_avg(t) ==
    LET Y == {r.year[1] : r \in {x \in Rows(t) : notna(x.year)}}
        order == SortBy(Y, [y \in Y |-> y])
    IN [i \in 1..Len(order) |->
          [year |-> order[i],
           stflife |-> mean([j \in 1..Len(life_group(t, order[i])) |->
                               Float(life_group(t, order[i])[j].stflife)])]]

\* the concatenation of the sequences ss[i], ss[i+1], ...
RECURSIVE FlattenFrom(_, _)
FlattenFrom(ss, i) == IF i > Len(ss) THEN <<>> ELSE ss[i] \o FlattenFrom(ss, i + 1)
Flatten(ss) == FlattenFrom(ss, 1)

\* (variant: how='inner', the years without a match are dropped)
merge_inner(years, avg) ==
    Flatten([i \in 1..Len(years) |->
        LET Match(r) == r.year = years[i]
            hit == SelectSeq(avg, Match)
        IN [j \in 1..Len(hit) |-> [year |-> years[i], stflife |-> hit[j].stflife]]])
\* (variant: the missing means are filled with 0)
merge_left_fill_zero(years, avg) ==
    Flatten([i \in 1..Len(years) |->
        LET Match(r) == r.year = years[i]
            hit == SelectSeq(avg, Match)
        IN IF hit = <<>> THEN <<[year |-> years[i], stflife |-> Float(0)]>>
           ELSE [j \in 1..Len(hit) |-> [year |-> years[i], stflife |-> hit[j].stflife]]])
\* pd.merge(all_years, avg, on='year', how='left'): the rows of the left
\* table in their order, each with every matching row of the right table,
\* or with a missing stflife when no row matches
merge_left(years, avg) ==
    Flatten([i \in 1..Len(years) |->
        LET Match(r) == r.year = years[i]
            hit == SelectSeq(avg, Match)
        IN IF hit = <<>> THEN <<[year |-> years[i], stflife |-> NaN]>>
           ELSE [j \in 1..Len(hit) |-> [year |-> years[i], stflife |-> hit[j].stflife]]])

\* f"{x:.1f}": x in tenths, a tie rounded to the even tenth
Format1(x) ==
    LET n == 10 * x[1]
        q == n \div x[2]
        r == n % x[2]
    IN IF 2 * r < x[2] THEN q
       ELSE IF 2 * r > x[2] THEN q + 1
       ELSE IF q % 2 = 0 THEN q ELSE q + 1

\* for _, row in data.iterrows(): if not pd.isna(row['stflife']): ax.text(...)
value_labels(full) ==
    LET Has(r) == ~isna(r.stflife)
        shown == SelectSeq(full, Has)
    IN [i \in 1..Len(shown) |-> [year |-> shown[i].year, text |-> Format1(shown[i].stflife)]]

life_load(Bg, Eu) ==
    /\ script = "life" /\ pc = "start"
    /\ \/ \E b \in Bg, e \in Eu :
            df_bg' = b /\ df_eu' = e /\ pc' = "loaded" /\ UNCHANGED raised
       \/ /\ pc' = "error" /\ raised' = "read_csv(self.bg_file)"
          /\ UNCHANGED <<df_bg, df_eu>>
       \/ \E b \in Bg :
            /\ df_bg' = b /\ pc' = "error" /\ raised' = "read_csv(self.eu_file)"
            /\ UNCHANGED df_eu
    /\ UNCHANGED <<script, total_n, df_bg_clean, df_eu_clean, avg_life_bg_full,
                   avg_life_eu_full, data_labels, df, chartVars, ridgeVars,
                   openVars, restVars>>

life_load_data == life_load(BgTables, EuTables)

life_prepare_data ==
    /\ script = "life" /\ pc = "loaded"
    /\ df_bg' = with_year(df_bg)
    /\ df_eu' = with_year(df_eu)
    /\ df_bg_clean' = life_clean(with_year(df_bg))
    /\ df_eu_clean' = life_clean(with_year(df_eu))
    /\ pc' = "prepared"
    /\ UNCHANGED <<script, total_n, avg_life_bg_full, avg_life_eu_full,
                   data_labels, notLife>>

life_aggregate_data ==
    /\ script = "life" /\ pc = "prepared"
    /\ \E avg_life_bg \in {life_avg(df_bg_clean)},
          avg_life_eu \in {life_avg(df_eu_clean)},
          all_years \in {ess_years} :
          /\ avg_life_bg_full' = merge_left(all_years, avg_life_bg)
          /\ avg_life_eu_full' = merge_left(all_years, avg_life_eu)
    /\ pc' = "aggregated"
    /\ UNCHANGED <<script, total_n, df_bg, df_eu, df_bg_clean, df_eu_clean,
                   data_labels, notLife>>

\* Plotter.create_plot: the value labels and the footnote with N
life_create_plot ==
    /\ script = "life" /\ pc = "aggregated"
    /\ data_labels' = [bg |-> value_labels(avg_life_bg_full),
                       eu |-> value_labels(avg_life_eu_full)]
    /\ total_n' = Len(df_bg_clean)
    /\ pc' = "plotted"
    /\ UNCHANGED <<script, df_bg, df_eu, df_bg_clean, df_eu_clean,
                   avg_life_bg_full, avg_life_eu_full, notLife>>

life_save_plot ==
    /\ script = "life" /\ pc = "plotted"
    /\ saved' = saved \cup {"assignment_1/3_life_satisfaction_bulgaria_eu.png"}
    /\ pc' = "saved"
    /\ UNCHANGED <<script, dataVars, printed, figVars, inspectVars, first_run, raised>>

life_print ==
    /\ script = "life" /\ pc = "saved"
    /\ printed' = Append(printed, "Final clean life satisfaction plot saved with dynamic N!")
    /\ pc' = "done"
    /\ UNCHANGED <<script, dataVars, saved, figVars, inspectVars, first_run, raised>>

\* ------------------------------------------- 2_ridgeline_power_hedonism
MaxRidgeRows == 1       \* rows of the input table of the ridgeline script
ValueCodes == {1, 6, 7}
EiscedCodes == {1, 3, 8}
RidgeRecords == [imprich : ValueCodes, iprspot : ValueCodes,
                 ipgdtim : ValueCodes, impfun : ValueCodes, eisced : EiscedCodes]
\* a table with two records of different item values for every education
\* code that has a label
RidgeFullTable ==
    LET codes == <<1, 2, 4, 5, 6, 7>> IN
    [i \in 1..2 * Len(codes) |->
        LET v == IF i % 2 = 1 THEN 1 ELSE 6 IN
        [imprich |-> v, iprspot |-> v, ipgdtim |-> v, impfun |-> v,
         eisced |-> codes[(i + 1) \div 2]]]
RidgeTables == TablesOf(RidgeRecords, MaxRidgeRows) \cup {RidgeFullTable}

VALID_RANGE == <<1, 2, 3, 4, 5, 6>>
EDU_LABELS ==
    [k \in {1, 2, 4, 5, 6, 7} |->
        CASE k = 1 -> "Primary education"
          [] k = 2 -> "Lower secondary"
          [] k = 4 -> "Upper secondary"
          [] k = 5 -> "Post-secondary vocational"
          [] k = 6 -> "Short-cycle tertiary"
          [] k = 7 -> "Bachelor's or higher"]
EDU_ORDER == <<"Primary education", "Lower secondary", "Upper secondary",
               "Post-secondary vocational", "Short-cycle tertiary",
               "Bachelor's or higher">>
\* RidgePlotter.edu_order
edu_order == <<"Primary education", "Lower secondary", "Upper secondary",
               "Post-secondary vocational", "Short-cycle tertiary",
               "Bachelor's or higher">>
RidgeColumns == {"hedonism_avg", "power_avg"}

\* Series.isin(values)
isin(x, values) == x \in values

\* df[['imprich', 'iprspot', 'ipgdtim', 'impfun']].apply(
\*     lambda x: x.isin(valid_range).all(), axis=1)
ridge_items_ok(r, valid_range) ==
    \A c \in {"imprich", "iprspot", "ipgdtim", "impfun"} : isin(r[c], Range(valid_range))
\* df_clean['eisced'].isin(range(1, 8))
ridge_eisced_ok(r) == isin(r.eisced, 1..7)

ridge_clean_data(t, valid_range) ==
    LET Items(r) == ridge_items_ok(r, valid_range)
    IN SelectSeq(SelectSeq(t, Items), ridge_eisced_ok)

\* DataFrame.mean(axis=1) over the named columns of one row
row_mean(r, cols) == mean([i \in 1..Len(cols) |-> Float(r[cols[i]])])

ridge_construct_values(t) ==
    [i \in 1..Len(t) |->
        [c \in DOMAIN t[i] \cup {"power_avg", "hedonism_avg"} |->
            IF c = "power_avg" THEN row_mean(t[i], <<"imprich", "iprspot">>)
            ELSE IF c = "hedonism_avg" THEN row_mean(t[i], <<"ipgdtim", "impfun">>)
            ELSE t[i][c]]]

\* Series.map(edu_labels), then pd.Categorical(..., categories=edu_order):
\* a code without a label, or a label outside the categories, is missing
edu_label_of(x, edu_labels, order) ==
    IF x \in DOMAIN edu_labels /\ edu_labels[x] \in Range(order)
    THEN Val(edu_labels[x]) ELSE NaN

ridge_apply_education_labels(t, edu_labels, order) ==
    [i \in 1..Len(t) |->
        [c \in DOMAIN t[i] \cup {"edu_label"} |->
            IF c = "edu_label" THEN edu_label_of(t[i].eisced, edu_labels, order)
            ELSE t[i][c]]]

edu_group(t, l) == LET In(r) == r.edu_label = Val(l) IN SelectSeq(t, In)
\* groupby('edu_label').size(): one entry per category, in category order
ridge_group_counts(t) ==
    [i \in 1..Len(EDU_ORDER) |->
        [edu_label |-> EDU_ORDER[i], n |-> Len(edu_group(t, EDU_ORDER[i]))]]
\* groupby('edu_label')[column].mean()
ridge_group_mean(t, col) ==
    [i \in 1..Len(EDU_ORDER) |->
        [edu_label |-> EDU_ORDER[i],
         value |-> mean(Column(edu_group(t, EDU_ORDER[i]), col))]]
\* Series.reindex(axis): the value of each axis entry, missing when absent
reindex(series, axis) ==
    [i \in 1..Len(axis) |->
        LET Is(e) == e.edu_label = axis[i]
            hit == SelectSeq(series, Is)
        IN [edu_label |-> axis[i],
            value |-> IF hit = <<>> THEN NaN ELSE hit[1].value]]

ridge_load_data ==
    /\ script = "ridge" /\ pc = "start"
    /\ \/ \E t \in RidgeTables : df' = t /\ pc' = "loaded" /\ UNCHANGED raised
       \/ pc' = "error" /\ raised' = "read_csv(self.file_path)" /\ UNCHANGED df
    /\ UNCHANGED <<script, total_n, ridgeVars, chartVars, lifeVars, openVars,
                   restVars>>

ridge_clean ==
    /\ script = "ridge" /\ pc = "loaded"
    /\ df_clean' = ridge_clean_data(df, VALID_RANGE)
    /\ pc' = "cleaned"
    /\ UNCHANGED <<script, df, total_n, column, group_counts, avg_values, notRidge>>

ridge_construct ==
    /\ script = "ridge" /\ pc = "cleaned"
    /\ df_clean' = ridge_construct_values(df_clean)
    /\ pc' = "constructed"
    /\ UNCHANGED <<script, df, total_n, column, group_counts, avg_values, notRidge>>

ridge_apply_labels ==
    /\ script = "ridge" /\ pc = "constructed"
    /\ df_clean' = ridge_apply_education_labels(df_clean, EDU_LABELS, EDU_ORDER)
    /\ pc' = "labelled"
    /\ UNCHANGED <<script, df, total_n, column, group_counts, avg_values, notRidge>>

\* the four RidgePlotter(df_clean, column, title, filename, ...) of the main
\* script, in its order
RidgeCalls ==
    <<[column |-> "hedonism_avg", filename |-> "2_ridgeline_hedonism_bulgaria.svg"],
      [column |-> "power_avg", filename |-> "2_ridgeline_power_bulgaria.svg"],
      [column |-> "hedonism_avg", filename |-> "2_overlay_ready_hedonism.svg"],
      [column |-> "power_avg", filename |-> "2_overlay_ready_power.svg"]>>

\* RidgePlotter(df_clean, column, ...).create_plot(), lines 75-76; every call
\* before this one has saved its file
ridge_create_plot_counts ==
    /\ script = "ridge"
    /\ pc = "labelled" \/ (pc = "saved" /\ Cardinality(saved) < Len(RidgeCalls))
    /\ column' = RidgeCalls[Cardinality(saved) + 1].column
    /\ group_counts' = ridge_group_counts(df_clean)
    /\ pc' = "counted"
    /\ UNCHANGED <<script, df, total_n, df_clean, avg_values, notRidge>>

\* create_plot, line 106
ridge_create_plot_averages ==
    /\ script = "ridge" /\ pc = "counted"
    /\ avg_values' = reindex(ridge_group_mean(df_clean, column), edu_order)
    /\ pc' = "averaged"
    /\ UNCHANGED <<script, df, total_n, df_clean, column, group_counts, notRidge>>

\* self.data[self.data['edu_label'] == edu_label][self.column].dropna()
ridge_subset(t, l, col) == SelectSeq(Column(edu_group(t, l), col), notna)
\* gaussian_kde(subset) raises ValueError for fewer than two values and
\* LinAlgError for values that are all equal
kde_raises(subset) == Cardinality(Range(subset)) < 2
\* the axes of the figure after joyplot: one per group that it draws and one
\* for the common x axis; whether it draws the groups without rows is left
\* to the library
joyplot_axes(t) ==
    {1 + Cardinality({l \in Range(EDU_ORDER) : edu_group(t, l) # <<>>}),
     1 + Len(EDU_ORDER)}
\* zip(axes, avg_values.items()): as many pairs as the shorter of the two
zip_len(n, items) == IF n < Len(items) THEN n ELSE Len(items)

\* create_plot, lines 107-137: for each axis paired with a category the KDE
\* of the category's values, then the average line and its label
ridge_create_plot_lines ==
    /\ script = "ridge" /\ pc = "averaged"
    /\ \E n \in joyplot_axes(df_clean) :
         LET m == zip_len(n, avg_values) IN
         IF \E i \in 1..m :
               kde_raises(ridge_subset(df_clean, avg_values[i].edu_label, column))
         THEN /\ pc' = "error"
              /\ raised' = "gaussian_kde(subset, bw_method=0.25)"
              /\ UNCHANGED avg_lines
         ELSE /\ avg_lines' = SubSeq(avg_values, 1, m)
              /\ pc' = "plotted"
              /\ UNCHANGED raised
    /\ UNCHANGED <<script, dataVars, outVars, xticks, inspectVars, first_run>>

\* create_plot, lines 173-185: the footnote with len(self.data), then both
\* savefig calls, which write the same file
ridge_create_plot_save ==
    /\ script = "ridge" /\ pc = "plotted"
    /\ total_n' = Len(df_clean)
    /\ saved' = saved \cup {RidgeCalls[Cardinality(saved) + 1].filename}
    /\ pc' = "saved"
    /\ UNCHANGED <<script, df, chartVars, lifeVars, ridgeVars, openVars,
                   printed, figVars, inspectVars, first_run, raised>>

ridge_print ==
    /\ script = "ridge" /\ pc = "saved" /\ Cardinality(saved) = Len(RidgeCalls)
    /\ printed' = Append(printed, "All plots saved successfully!")
    /\ pc' = "done"
    /\ UNCHANGED <<script, dataVars, saved, figVars, inspectVars, first_run, raised>>

\* ------------------------------------ Assignment_1/scripts/4_openness
MaxOpenRows == 1        \* rows of the input table of the openness script
MaxReversals == 2       \* applications of reverse_scale that are followed
OPENNESS_ITEMS == <<"ipcrtiv", "ipgdtim", "impdiff", "ipadvnt", "impfun", "impfree">>
OpenColumns == Range(OPENNESS_ITEMS) \cup {"agea", "rlgblg"}
AgeCodes == {40, 999}
ItemCodes == {0, 1, 6, 7}
\* every item has the code b, except the item p, which has the code v
OpenRecords ==
    {[c \in OpenColumns |->
        IF c = "agea" THEN a ELSE IF c = "rlgblg" THEN g
        ELSE IF c = p THEN v ELSE b] :
     a \in AgeCodes, g \in RlgblgCodes, p \in Range(OPENNESS_ITEMS),
     v \in ItemCodes, b \in {1, 6}}
\* the records of the tables without a column: every item has the same code
OpenShortRecords ==
    {[c \in OpenColumns |->
        IF c = "agea" THEN a ELSE IF c = "rlgblg" THEN g ELSE b] :
     a \in AgeCodes, g \in RlgblgCodes, b \in {1, 6}}
OpenTables ==
    TablesOf(OpenRecords, MaxOpenRows)
    \cup UNION {TablesWithout(OpenShortRecords, c, MaxShortRows) : c \in OpenColumns}

\* lambda x: x in range(1, 7)
open_item_lambda(x) == x \in 1..6
\* (variant: .any(axis=1) in place of .all(axis=1))
open_row_ok_any_item(r) ==
    /\ r.agea # 999
    /\ isin(r.rlgblg, {1, 2})
    /\ \E i \in 1..Len(OPENNESS_ITEMS) : open_item_lambda(r[OPENNESS_ITEMS[i]])
open_row_ok(r) ==
    /\ r.agea # 999
    /\ isin(r.rlgblg, {1, 2})
    /\ \A i \in 1..Len(OPENNESS_ITEMS) : open_item_lambda(r[OPENNESS_ITEMS[i]])
open_filter_data(t) == SelectSeq(t, open_row_ok)

\* (variant: the scale maximum instead of the maximum plus one)
reverse_item_from_max(x) == 6 - x
\* for col in self.openness_items: valid_df[col] = 7 - valid_df[col]
reverse_item(x) == 7 - x
\* (variant: every column of the table is reversed)
open_reverse_scale_every_column(t) ==
    [i \in 1..Len(t) |-> [c \in DOMAIN t[i] |-> reverse_item(t[i][c])]]
open_reverse_scale(t) ==
    [i \in 1..Len(t) |->
        [c \in DOMAIN t[i] |->
            IF c \in Range(OPENNESS_ITEMS) THEN reverse_item(t[i][c]) ELSE t[i][c]]]

\* valid_df['openness'] = valid_df[self.openness_items].mean(axis=1)
open_compute_openness(t) ==
    [i \in 1..Len(t) |->
        [c \in DOMAIN t[i] \cup {"openness"} |->
            IF c = "openness" THEN row_mean(t[i], OPENNESS_ITEMS) ELSE t[i][c]]]

\* valid_df['rlgblg'].map({1: 'Religious', 2: 'Non-religious'})
open_religion_map(x) == IF x = 1 THEN Val("Religious")
                        ELSE IF x = 2 THEN Val("Non-religious") ELSE NaN
open_add_religion_label(t) ==
    [i \in 1..Len(t) |->
        [c \in DOMAIN t[i] \cup {"religion"} |->
            IF c = "religion" THEN open_religion_map(t[i].rlgblg) ELSE t[i][c]]]

open_load_data ==
    /\ script = "openness" /\ pc = "start"
    /\ \/ \E t \in OpenTables : df' = t /\ pc' = "loaded" /\ UNCHANGED raised
       \/ pc' = "error" /\ raised' = "read_csv(self.file_path)" /\ UNCHANGED df
    /\ UNCHANGED <<script, total_n, openVars, chartVars, lifeVars, ridgeVars,
                   restVars>>

\* self.df['agea'], self.df['rlgblg'], self.df[self.openness_items] raise
\* KeyError when a column is not in the table
open_filter ==
    /\ script = "openness" /\ pc = "loaded"
    /\ IF OpenColumns \subseteq Columns(df, OpenColumns)
       THEN /\ valid_df' = open_filter_data(df)
            /\ pc' = "filtered"
            /\ UNCHANGED raised
       ELSE /\ pc' = "error"
            /\ raised' = "KeyError in filter_data"
            /\ UNCHANGED valid_df
    /\ UNCHANGED <<script, df, total_n, reversals, chartVars, lifeVars,
                   ridgeVars, restVars>>

\* reverse_scale as the main script calls it, once, right after filter_data
open_reverse ==
    /\ script = "openness" /\ pc = "filtered" /\ reversals = 0
    /\ valid_df' = open_reverse_scale(valid_df)
    /\ reversals' = reversals + 1
    /\ pc' = "reversed"
    /\ UNCHANGED <<script, df, total_n, notOpen>>

open_compute ==
    /\ script = "openness" /\ pc = "reversed" /\ reversals = 1
    /\ valid_df' = open_compute_openness(valid_df)
    /\ pc' = "computed"
    /\ UNCHANGED <<script, df, total_n, reversals, notOpen>>

open_add_label ==
    /\ script = "openness" /\ pc = "computed"
    /\ valid_df' = open_add_religion_label(valid_df)
    /\ pc' = "labelled"
    /\ UNCHANGED <<script, df, total_n, reversals, notOpen>>

\* f"assignment_1/output/4_openness_vs_age_by_religion_{suffix}.png" / .pdf
openness_file(suffix, ext) ==
    CASE suffix = "color" /\ ext = "png" ->
            "assignment_1/output/4_openness_vs_age_by_religion_color.png"
      [] suffix = "color" /\ ext = "pdf" ->
            "assignment_1/output/4_openness_vs_age_by_religion_color.pdf"
      [] suffix = "bw" /\ ext = "png" ->
            "assignment_1/output/4_openness_vs_age_by_religion_bw.png"
      [] suffix = "bw" /\ ext = "pdf" ->
            "assignment_1/output/4_openness_vs_age_by_religion_bw.pdf"

\* Plotter.plot_version(suffix=...): the footnote with N = len(self.data),
\* then the two savefig calls
open_plot_version(from, suffix, to) ==
    /\ script = "openness" /\ pc = from
    /\ total_n' = Len(valid_df)
    /\ saved' = saved \cup {openness_file(suffix, "png"), openness_file(suffix, "pdf")}
    /\ pc' = to
    /\ UNCHANGED <<script, df, chartVars, lifeVars, ridgeVars, openVars,
                   printed, figVars, inspectVars, first_run, raised>>

\* the colour version, then the black-and-white version
open_plot_color == open_plot_version("labelled", "color", "plotted")
open_plot_bw == open_plot_version("plotted", "bw", "plotted_bw")

open_print ==
    /\ script = "openness" /\ pc = "plotted_bw"
    /\ printed' = Append(printed, "Openness plots saved!")
    /\ pc' = "done"
    /\ UNCHANGED <<script, dataVars, saved, figVars, inspectVars, first_run, raised>>

\* reverse_scale called again on the table it has already reversed
open_reverse_again ==
    /\ script = "openness" /\ pc = "reversed"
    /\ reversals >= 1 /\ reversals < MaxReversals
    /\ valid_df' = open_reverse_scale(valid_df)
    /\ reversals' = reversals + 1
    /\ UNCHANGED <<script, pc, df, total_n, notOpen>>

\* ------------------------------------ assignment_1/scripts/4_openness
\* the procedural script: module-level statements on df, valid_df, total_n
openness_items == <<"ipcrtiv", "ipgdtim", "impdiff", "ipadvnt", "impfun", "impfree">>

\* (variant: the age code 999 is not excluded)
proc_valid_row_any_age(r) ==
    /\ r.rlgblg \in {1, 2}
    /\ \A i \in 1..Len(openness_items) : r[openness_items[i]] \in 1..6
\* (df['agea'] != 999) & (df['rlgblg'].isin([1, 2])) &
\*     df[openness_items].applymap(lambda x: x in range(1, 7)).all(axis=1)
proc_valid_row(r) ==
    /\ r.agea # 999
    /\ r.rlgblg \in {1, 2}
    /\ \A i \in 1..Len(openness_items) : r[openness_items[i]] \in 1..6
\* for col in openness_items: valid_df[col] = 7 - valid_df[col]
proc_reversed(t) ==
    [i \in 1..Len(t) |->
        [c \in DOMAIN t[i] |->
            IF c \in Range(openness_items) THEN 7 - t[i][c] ELSE t[i][c]]]
\* valid_df['openness'] = valid_df[openness_items].mean(axis=1)
proc_with_openness(t) ==
    [i \in 1..Len(t) |->
        [c \in DOMAIN t[i] \cup {"openness"} |->
            IF c = "openness"
            THEN mean([j \in 1..Len(openness_items) |-> Float(t[i][openness_items[j]])])
            ELSE t[i][c]]]
\* valid_df['religion'] = valid_df['rlgblg'].map({1: 'Religious', 2: 'Non-religious'})
proc_with_religion(t) ==
    [i \in 1..Len(t) |->
        [c \in DOMAIN t[i] \cup {"religion"} |->
            IF c = "religion"
            THEN CASE t[i].rlgblg = 1 -> Val("Religious")
                   [] t[i].rlgblg = 2 -> Val("Non-religious")
                   [] OTHER -> NaN
            ELSE t[i][c]]]

\* what the class-based script leaves behind
open_outputs == [pc |-> pc, raised |-> raised, valid_df |-> valid_df,
                 total_n |-> total_n]
\* the procedural script started on the file the class-based script has
\* read; its line 7 reads the same table
proc_read_csv ==
    /\ script = "openness"
    /\ pc = "done" \/ (pc = "error" /\ raised = "KeyError in filter_data")
    /\ first_run = <<>>
    /\ first_run' = <<open_outputs>>
    /\ script' = "openness_proc" /\ pc' = "loaded"
    /\ valid_df' = None /\ total_n' = None /\ reversals' = 0
    /\ saved' = {} /\ printed' = <<>> /\ raised' = None
    /\ UNCHANGED <<df, chartVars, lifeVars, ridgeVars, figVars, inspectVars>>

proc_filter ==
    /\ script = "openness_proc" /\ pc = "loaded"
    /\ IF {"agea", "rlgblg"} \cup Range(openness_items) \subseteq Columns(df, OpenColumns)
       THEN /\ valid_df' = SelectSeq(df, proc_valid_row)
            /\ pc' = "filtered"
            /\ UNCHANGED raised
       ELSE /\ pc' = "error"
            /\ raised' = "KeyError in valid_df"
            /\ UNCHANGED valid_df
    /\ UNCHANGED <<script, df, total_n, reversals, chartVars, lifeVars,
                   ridgeVars, restVars>>

proc_reverse ==
    /\ script = "openness_proc" /\ pc = "filtered"
    /\ valid_df' = proc_reversed(valid_df)
    /\ pc' = "reversed"
    /\ UNCHANGED <<script, df, total_n, reversals, notOpen>>

proc_openness ==
    /\ script = "openness_proc" /\ pc = "reversed"
    /\ valid_df' = proc_with_openness(valid_df)
    /\ pc' = "computed"
    /\ UNCHANGED <<script, df, total_n, reversals, notOpen>>

proc_religion ==
    /\ script = "openness_proc" /\ pc = "computed"
    /\ valid_df' = proc_with_religion(valid_df)
    /\ pc' = "labelled"
    /\ UNCHANGED <<script, df, total_n, reversals, notOpen>>

\* total_n = len(valid_df)
proc_total_n ==
    /\ script = "openness_proc" /\ pc = "labelled"
    /\ total_n' = Len(valid_df)
    /\ pc' = "counted"
    /\ UNCHANGED <<script, df, valid_df, reversals, notOpen>>

\* f"assignment_1/4_openness_vs_age_by_religion_{suffix}.png" / .pdf
proc_file(suffix, ext) ==
    CASE suffix = "color" /\ ext = "png" ->
            "assignment_1/4_openness_vs_age_by_religion_color.png"
      [] suffix = "color" /\ ext = "pdf" ->
            "assignment_1/4_openness_vs_age_by_religion_color.pdf"
      [] suffix = "bw" /\ ext = "png" ->
            "assignment_1/4_openness_vs_age_by_religion_bw.png"
      [] suffix = "bw" /\ ext = "pdf" ->
            "assignment_1/4_openness_vs_age_by_religion_bw.pdf"
\* print(f"Saved: openness_vs_age_by_religion_{suffix}.png/pdf")
proc_saved_message(suffix) ==
    IF suffix = "color" THEN "Saved: openness_vs_age_by_religion_color.png/pdf"
    ELSE "Saved: openness_vs_age_by_religion_bw.png/pdf"

\* plot_version(suffix=...): the two savefig calls and the print
proc_plot_version(from, suffix, to) ==
    /\ script = "openness_proc" /\ pc = from
    /\ saved' = saved \cup {proc_file(suffix, "png"), proc_file(suffix, "pdf")}
    /\ printed' = Append(printed, proc_saved_message(suffix))
    /\ pc' = to
    /\ UNCHANGED <<script, dataVars, figVars, inspectVars, first_run, raised>>
proc_plot_color == proc_plot_version("counted", "color", "plotted")
proc_plot_bw == proc_plot_version("plotted", "bw", "plotted_bw")

proc_print ==
    /\ script = "openness_proc" /\ pc = "plotted_bw"
    /\ printed' = Append(printed, "Done!")
    /\ pc' = "done"
    /\ UNCHANGED <<script, dataVars, saved, figVars, inspectVars, first_run, raised>>

\* ------------------------------------------ Assignment_1/data/inspect_data
\* ess_round_to_year = {1: 2002, 2: 2004, ..., 11: 2022}
inspect_round_to_year == [k \in 1..11 |-> 2000 + 2 * k]
\* df['year'] = df['essround'].map(ess_round_to_year)
inspect_with_year(t) ==
    [i \in 1..Len(t) |->
        [essround |-> t[i].essround, stflife |-> t[i].stflife,
         year |-> IF t[i].essround \in DOMAIN inspect_round_to_year
                  THEN Val(inspect_round_to_year[t[i].essround]) ELSE NaN]]
\* (variant: the ends of the scale are left out)
inspect_valid_strict(r) == 0 < r.stflife /\ r.stflife < 10
\* df['stflife'].between(0, 10)
inspect_valid(r) == 0 <= r.stflife /\ r.stflife <= 10
\* df_clean.groupby('year')['stflife'].mean(): a Series indexed by the years
\* that occur, ascending; the rows without a year are in no group
inspect_groupby_mean(t) ==
    LET Y == {t[i].year[1] : i \in {j \in 1..Len(t) : notna(t[j].year)}}
        index == SortBy(Y, [y \in Y |-> y])
        Of(y) == LET In(r) == r.year = Val(y) IN SelectSeq(t, In)
    IN [i \in 1..Len(index) |->
          [year |-> index[i],
           stflife |-> mean([j \in 1..Len(Of(index[i])) |->
                               Float(Of(index[i])[j].stflife)])]]
\* the value of a Series at a key, missing when the key is not in its index
series_at(series, y) ==
    LET Is(e) == e.year = y
        hit == SelectSeq(series, Is)
    IN IF hit = <<>> THEN NaN ELSE hit[1].stflife
\* round(2): the nearest hundredth, a tie to the even one; missing stays
round2(x) ==
    IF isna(x) THEN NaN
    ELSE LET n == 100 * x[1]
             q == n \div x[2]
             r == n % x[2]
         IN IF 2 * r < x[2] THEN Frac(q, 100)
            ELSE IF 2 * r > x[2] THEN Frac(q + 1, 100)
            ELSE IF q % 2 = 0 THEN Frac(q, 100) ELSE Frac(q + 1, 100)
\* pd.DataFrame({'Bulgaria': avg_bg, 'Europe Average': avg_eu}).round(2):
\* one row per year of either index, ascending
inspect_comparison(bg, eu) ==
    LET Y == {bg[i].year : i \in 1..Len(bg)} \cup {eu[i].year : i \in 1..Len(eu)}
        index == SortBy(Y, [y \in Y |-> y])
    IN [i \in 1..Len(index) |->
          [year |-> index[i],
           Bulgaria |-> round2(series_at(bg, index[i])),
           Europe |-> round2(series_at(eu, index[i]))]]

\* what the life-satisfaction script leaves behind
life_outputs == [avg_life_bg_full |-> avg_life_bg_full,
                 avg_life_eu_full |-> avg_life_eu_full]
\* inspect_data.py started on the two files that the life-satisfaction
\* script has read
inspect_read_csv ==
    /\ script = "life" /\ pc = "done" /\ first_run = <<>>
    /\ first_run' = <<life_outputs>>
    /\ script' = "inspect" /\ pc' = "loaded"
    /\ df_bg' = file_table(df_bg) /\ df_eu' = file_table(df_eu)
    /\ df_bg_clean' = None /\ df_eu_clean' = None
    /\ avg_life_bg_full' = None /\ avg_life_eu_full' = None
    /\ data_labels' = None /\ total_n' = None
    /\ saved' = {} /\ printed' = <<>>
    /\ UNCHANGED <<df, chartVars, ridgeVars, openVars, figVars, inspectVars, raised>>

inspect_map_year ==
    /\ script = "inspect" /\ pc = "loaded"
    /\ df_bg' = inspect_with_year(df_bg)
    /\ df_eu' = inspect_with_year(df_eu)
    /\ pc' = "mapped"
    /\ UNCHANGED <<script, total_n, df_bg_clean, df_eu_clean, avg_life_bg_full,
                   avg_life_eu_full, data_labels, notLife>>

inspect_between ==
    /\ script = "inspect" /\ pc = "mapped"
    /\ df_bg_clean' = SelectSeq(df_bg, inspect_valid)
    /\ df_eu_clean' = SelectSeq(df_eu, inspect_valid)
    /\ pc' = "filtered"
    /\ UNCHANGED <<script, total_n, df_bg, df_eu, avg_life_bg_full,
                   avg_life_eu_full, data_labels, notLife>>

inspect_groupby ==
    /\ script = "inspect" /\ pc = "filtered"
    /\ avg_bg' = inspect_groupby_mean(df_bg_clean)
    /\ avg_eu' = inspect_groupby_mean(df_eu_clean)
    /\ pc' = "averaged"
    /\ UNCHANGED <<script, dataVars, outVars, figVars, comparison, first_run, raised>>

inspect_compare ==
    /\ script = "inspect" /\ pc = "averaged"
    /\ comparison' = inspect_comparison(avg_bg, avg_eu)
    /\ pc' = "compared"
    /\ UNCHANGED <<script, dataVars, outVars, figVars, avg_bg, avg_eu, first_run, raised>>

\* print("Average Life Satisfaction by Year:"); print(comparison)
inspect_print ==
    /\ script = "inspect" /\ pc = "compared"
    /\ printed' = printed \o <<"Average Life Satisfaction by Year:", "comparison">>
    /\ pc' = "done"
    /\ UNCHANGED <<script, dataVars, saved, figVars, inspectVars, first_run, raised>>

\* ------------------------------------------------------- specification
Scripts == {"bar", "line", "life", "ridge", "openness"}

\* nothing is written, printed or drawn before the script runs
NothingOut ==
    /\ saved = {} /\ printed = <<>>
    /\ xticks = None /\ avg_lines = None
    /\ avg_bg = None /\ avg_eu = None /\ comparison = None
    /\ first_run = <<>> /\ raised = None

Init ==
    /\ script \in Scripts
    /\ pc = "start"
    /\ df = None /\ df_chart = None /\ grouped = None /\ means = None
    /\ total_n = None
    /\ df_bg = None /\ df_eu = None /\ df_bg_clean = None /\ df_eu_clean = None
    /\ avg_life_bg_full = None /\ avg_life_eu_full = None /\ data_labels = None
    /\ df_clean = None /\ column = None /\ group_counts = None
    /\ avg_values = None /\ valid_df = None /\ reversals = 0
    /\ NothingOut

Next ==
    \/ bar_load_data \/ bar_extract_variables \/ bar_clean
    \/ bar_aggregate_data \/ bar_get_total_observations
    \/ bar_customize_plot \/ bar_save_and_show_plot \/ bar_print
    \/ line_load_data \/ line_extract_variables \/ line_clean
    \/ line_aggregate_data \/ line_get_total_observations
    \/ line_customize_plot \/ line_save_and_show_plot \/ line_print
    \/ life_load_data \/ life_prepare_data \/ life_aggregate_data
    \/ life_create_plot \/ life_save_plot \/ life_print
    \/ ridge_load_data \/ ridge_clean \/ ridge_construct \/ ridge_apply_labels
    \/ ridge_create_plot_counts \/ ridge_create_plot_averages
    \/ ridge_create_plot_lines \/ ridge_create_plot_save \/ ridge_print
    \/ open_load_data \/ open_filter \/ open_reverse \/ open_compute
    \/ open_add_label \/ open_plot_color \/ open_plot_bw \/ open_print

Spec == Init /\ [][Next]_vars

\* the class-based openness script, then the procedural one on its file
InitOpenness == Init /\ script = "openness"
NextOpenness ==
    \/ open_load_data \/ open_filter \/ open_reverse \/ open_compute
    \/ open_add_label \/ open_plot_color \/ open_plot_bw \/ open_print
    \/ proc_read_csv
    \/ proc_filter \/ proc_reverse \/ proc_openness \/ proc_religion
    \/ proc_total_n \/ proc_plot_color \/ proc_plot_bw \/ proc_print
SpecOpenness == InitOpenness /\ [][NextOpenness]_vars

\* the life-satisfaction script, then inspect_data.py on its two files
InitInspect == Init /\ script = "life"
NextInspect ==
    \/ life_load_data \/ life_prepare_data \/ life_aggregate_data
    \/ life_create_plot \/ life_save_plot \/ life_print
    \/ inspect_read_csv
    \/ inspect_map_year \/ inspect_between \/ inspect_groupby
    \/ inspect_compare \/ inspect_print
SpecInspect == InitInspect /\ [][NextInspect]_vars

\* the bar chart script, then the line chart script on its file
MaxPairRows == 3
PairChartRecords == [cntry : {"BG"}, stflife : {0, 10, 11}, rlgblg : {1, 2},
                     sclmeet : {1, 7}]
\* what the bar chart script leaves behind
bar_outputs == [pc |-> pc, df_chart |-> df_chart, grouped |-> grouped,
                means |-> means, total_n |-> total_n]
\* the line chart script's load_data on the file that the bar chart script
\* has read
line_load_same_file ==
    /\ script = "bar"
    /\ pc = "done" \/ (pc = "error" /\ raised = "KeyError in extract_variables")
    /\ first_run = <<>>
    /\ first_run' = <<bar_outputs>>
    /\ script' = "line" /\ pc' = "loaded"
    /\ df_chart' = None /\ grouped' = None /\ means' = None /\ total_n' = None
    /\ saved' = {} /\ printed' = <<>> /\ xticks' = None /\ raised' = None
    /\ UNCHANGED <<df, lifeVars, ridgeVars, openVars, avg_lines, inspectVars>>
InitCharts ==
    /\ script = "bar" /\ pc = "loaded"
    /\ df \in TablesOf(PairChartRecords, MaxPairRows)
             \cup UNION {TablesWithout(PairChartRecords, c, MaxShortRows) :
                            c \in ChartColumns}
    /\ df_chart = None /\ grouped = None /\ means = None /\ total_n = None
    /\ df_bg = None /\ df_eu = None /\ df_bg_clean = None /\ df_eu_clean = None
    /\ avg_life_bg_full = None /\ avg_life_eu_full = None /\ data_labels = None
    /\ df_clean = None /\ column = None /\ group_counts = None
    /\ avg_values = None /\ valid_df = None /\ reversals = 0
    /\ NothingOut
NextCharts ==
    \/ bar_extract_variables \/ bar_clean
    \/ bar_aggregate_data \/ bar_get_total_observations
    \/ bar_customize_plot \/ bar_save_and_show_plot \/ bar_print
    \/ line_load_same_file
    \/ line_extract_variables \/ line_clean
    \/ line_aggregate_data \/ line_get_total_observations
    \/ line_customize_plot \/ line_save_and_show_plot \/ line_print
SpecCharts == InitCharts /\ [][NextCharts]_vars

\* the derive methods of the openness DataProcessor called in any order on a
\* filtered table, and the derive methods of the ridgeline DataProcessor
MaxDeriveRows == 2
DeriveOpenRecords ==
    [agea : {40, 41}, rlgblg : {1, 2}, ipcrtiv : {1, 6}, ipgdtim : {2},
     impdiff : {2}, ipadvnt : {2}, impfun : {2}, impfree : {3, 7}]
DeriveRidgeRecords ==
    [imprich : {1, 6}, iprspot : {1}, ipgdtim : {6}, impfun : {1, 7},
     eisced : {1, 3}]
\* data_processor.reverse_scale()
open_reverse_scale_call ==
    /\ script = "openness" /\ pc = "filtered" /\ reversals < MaxReversals
    /\ valid_df' = open_reverse_scale(valid_df)
    /\ reversals' = reversals + 1
    /\ UNCHANGED <<script, pc, df, total_n, notOpen>>
\* data_processor.compute_openness()
open_compute_openness_call ==
    /\ script = "openness" /\ pc = "filtered"
    /\ valid_df' = open_compute_openness(valid_df)
    /\ UNCHANGED <<script, pc, df, total_n, reversals, notOpen>>
\* data_processor.add_religion_label()
open_add_religion_label_call ==
    /\ script = "openness" /\ pc = "filtered"
    /\ valid_df' = open_add_religion_label(valid_df)
    /\ UNCHANGED <<script, pc, df, total_n, reversals, notOpen>>
InitDerive ==
    /\ script \in {"openness", "ridge"}
    /\ IF script = "openness"
       THEN /\ pc = "filtered"
            /\ df \in TablesOf(DeriveOpenRecords, MaxDeriveRows)
            /\ valid_df = open_filter_data(df)
            /\ df_clean = None
       ELSE /\ pc = "cleaned"
            /\ df \in TablesOf(DeriveRidgeRecords, MaxDeriveRows)
            /\ df_clean = ridge_clean_data(df, VALID_RANGE)
            /\ valid_df = None
    /\ reversals = 0
    /\ df_chart = None /\ grouped = None /\ means = None /\ total_n = None
    /\ df_bg = None /\ df_eu = None /\ df_bg_clean = None /\ df_eu_clean = None
    /\ avg_life_bg_full = None /\ avg_life_eu_full = None /\ data_labels = None
    /\ column = None /\ group_counts = None /\ avg_values = None
    /\ NothingOut
NextDerive ==
    \/ open_reverse_scale_call \/ open_compute_openness_call
    \/ open_add_religion_label_call
    \/ ridge_construct \/ ridge_apply_labels
SpecDerive == InitDerive /\ [][NextDerive]_vars

\* the script started a second time on the input files of its first run
MaxRuns == 2
\* what a run leaves behind: where it ended and everything it computed,
\* drew, wrote and printed
outputs == <<pc, raised, total_n, chartVars, df_bg_clean, df_eu_clean,
             avg_life_bg_full, avg_life_eu_full, data_labels, outVars, figVars>>
run_again ==
    /\ script \in {"bar", "life"}
    /\ pc = "done" \/ (pc = "error" /\ raised = "KeyError in extract_variables")
    /\ Len(first_run) + 1 < MaxRuns
    /\ first_run' = Append(first_run, outputs)
    /\ pc' = "loaded" /\ raised' = None
    /\ IF script = "life"
       THEN df_bg' = file_table(df_bg) /\ df_eu' = file_table(df_eu)
       ELSE UNCHANGED <<df_bg, df_eu>>
    /\ total_n' = None /\ df_chart' = None /\ grouped' = None /\ means' = None
    /\ df_bg_clean' = None /\ df_eu_clean' = None
    /\ avg_life_bg_full' = None /\ avg_life_eu_full' = None /\ data_labels' = None
    /\ saved' = {} /\ printed' = <<>> /\ xticks' = None
    /\ UNCHANGED <<script, df, ridgeVars, openVars, avg_lines, inspectVars>>

\* the first run has just read its input files
MaxRerunRows == 2
RerunChartRecords == [cntry : {"BG"}, stflife : {0, 11}, rlgblg : {1, 2},
                      sclmeet : {1, 7}]
RerunLifeRecords == [essround : {1, 2}, stflife : {0, 11}]
InitRerun ==
    /\ script \in {"bar", "life"}
    /\ pc = "loaded"
    /\ IF script = "bar"
       THEN /\ df \in TablesOf(RerunChartRecords, MaxRerunRows)
                   \cup UNION {TablesWithout(RerunChartRecords, c, MaxShortRows) :
                                  c \in ChartColumns}
            /\ df_bg = None /\ df_eu = None
       ELSE /\ df = None
            /\ df_bg \in TablesOf(RerunLifeRecords, MaxRerunRows)
            /\ df_eu \in TablesOf(RerunLifeRecords, MaxEuRows)
    /\ df_chart = None /\ grouped = None /\ means = None /\ total_n = None
    /\ df_bg_clean = None /\ df_eu_clean = None
    /\ avg_life_bg_full = None /\ avg_life_eu_full = None /\ data_labels = None
    /\ df_clean = None /\ column = None /\ group_counts = None
    /\ avg_values = None /\ valid_df = None /\ reversals = 0
    /\ NothingOut
NextRerun ==
    \/ bar_extract_variables \/ bar_clean
    \/ bar_aggregate_data \/ bar_get_total_observations
    \/ bar_customize_plot \/ bar_save_and_show_plot \/ bar_print
    \/ life_prepare_data \/ life_aggregate_data
    \/ life_create_plot \/ life_save_plot \/ life_print
    \/ run_again
SpecRerun == InitRerun /\ [][NextRerun]_vars

\* the script run of the worked example of group-by mean plus reindex:
\* its Bulgaria table holds up to MaxExampleRows records with the example's
\* values 2, 4 and 10 (and the invalid code 11)
MaxExampleRows == 3
ExampleRecords == [essround : {1, 2}, stflife : {2, 4, 10, 11}]
ExampleEuRecords == [essround : {1, 2}, stflife : {4, 11}]
life_load_example ==
    life_load(TablesOf(ExampleRecords, MaxExampleRows),
              TablesOf(ExampleEuRecords, MaxEuRows))

InitExample == Init /\ script = "life"
NextExample ==
    \/ life_load_example \/ life_prepare_data \/ life_aggregate_data
    \/ life_create_plot \/ life_save_plot \/ life_print
SpecExample == InitExample /\ [][NextExample]_vars

\* reverse_scale applied again and again to a filtered table
InitReverse ==
    /\ script = "openness"
    /\ pc = "filtered"
    /\ \E t \in {x \in OpenTables : OpenColumns \subseteq Columns(x, OpenColumns)} :
          df = t /\ valid_df = open_filter_data(t)
    /\ reversals = 0
    /\ df_chart = None /\ grouped = None /\ means = None /\ total_n = None
    /\ df_bg = None /\ df_eu = None /\ df_bg_clean = None /\ df_eu_clean = None
    /\ avg_life_bg_full = None /\ avg_life_eu_full = None /\ data_labels = None
    /\ df_clean = None /\ column = None /\ group_counts = None
    /\ avg_values = None
    /\ NothingOut
NextReverse == open_reverse \/ open_reverse_again
SpecReverse == InitReverse /\ [][NextReverse]_vars

\* ================================================================ claims
\* the validity rules, stated on the raw records
ChartValid(r) == r.stflife \in 0..10 /\ r.rlgblg \in {1, 2} /\ r.sclmeet \in 1..7
RidgeValid(r) ==
    /\ r.imprich \in 1..6 /\ r.iprspot \in 1..6
    /\ r.ipgdtim \in 1..6 /\ r.impfun \in 1..6
    /\ r.eisced \in 1..7
LifeValid(r) == r.stflife \in 0..10
RECURSIVE SumField(_, _)
SumField(t, c) == IF t = <<>> THEN 0 ELSE Head(t)[c] + SumField(Tail(t), c)
Count(t, P(_)) == Cardinality({i \in 1..Len(t) : P(t[i])})
IsChart == script \in {"bar", "line"}
ChartAggregated == IsChart /\ pc \in {"aggregated", "counted", "customized", "saved", "done"}
ChartCleaned == IsChart /\ (pc = "cleaned" \/ ChartAggregated)
LifePlotted == script = "life" /\ pc \in {"plotted", "saved", "done"}
LifeAggregated == script = "life" /\ (pc = "aggregated" \/ LifePlotted)
LifePrepared == script = "life" /\ (pc = "prepared" \/ LifeAggregated)
RidgeCleaned == script = "ridge"
                /\ pc \in {"cleaned", "constructed", "labelled", "counted",
                           "averaged", "plotted", "saved", "done"}
RidgeLabelled == script = "ridge"
                 /\ pc \in {"labelled", "counted", "averaged", "plotted", "saved", "done"}
RidgeCounted == script = "ridge"
                /\ pc \in {"counted", "averaged", "plotted", "saved", "done"}
RidgeAveraged == script = "ridge" /\ pc \in {"averaged", "plotted", "saved", "done"}

\* C1: no invalid code leaks into a mean.  Every record of the table that
\* the group means are taken over passes every validity rule of its script:
\* bar/line stflife in 0..10, rlgblg in {1,2}, sclmeet in 1..7; ridgeline
\* the four value items in 1..6 and eisced in 1..7; life satisfaction
\* stflife in 0..10.
C1_NoInvalidCodeInMeans ==
    /\ ChartCleaned =>
         \A r \in Rows(df_chart) :
            /\ r.stflife \in {Float(x) : x \in 0..10}
            /\ r.rlgblg \in {1, 2}
            /\ r.sclmeet \in 1..7
    /\ RidgeCleaned => \A r \in Rows(df_clean) : RidgeValid(r)
    /\ LifePrepared =>
         \A r \in Rows(df_bg_clean) \cup Rows(df_eu_clean) : LifeValid(r)
    /\ ChartAggregated =>
         \A g \in Rows(grouped) :
            g.stflife # NaN /\ 0 <= g.stflife[1] /\ g.stflife[1] <= 10 * g.stflife[2]
    /\ LifeAggregated =>
         \A g \in Rows(avg_life_bg_full) \cup Rows(avg_life_eu_full) :
            g.stflife # NaN => 0 <= g.stflife[1] /\ g.stflife[1] <= 10 * g.stflife[2]

\* an invalid record and a valid one were loaded, and the means were taken
C1_Witness ==
    /\ script = "bar" /\ pc = "aggregated"
    /\ Len(df) = 2 /\ Len(df_chart) = 1 /\ Len(grouped) = 1
    /\ df[1].stflife = 11

\* C2: the N reported after filtering is exactly the number of raw records
\* that satisfy all validity rules (stflife in 0..10 with both bounds,
\* rlgblg in {1,2}, sclmeet in 1..7); a record failing a rule is in neither
\* N nor any mean.
C2_NCountsValidRecords ==
    (IsChart /\ pc = "counted") =>
        /\ total_n = Count(df, ChartValid)
        /\ \A g \in Rows(grouped) :
             LET In(r) == ChartValid(r) /\ r.sclmeet = g.sclmeet
                          /\ (r.rlgblg = 1 <=> g.religious = "Religious")
                 used == SelectSeq(df, In)
             IN /\ used # <<>>
                /\ g.stflife[1] * Len(used) = SumField(used, "stflife") * g.stflife[2]

\* the bounds 0 and 10 are counted, -1 and 11 are not
C2_Witness ==
    /\ script = "line" /\ pc = "counted"
    /\ Len(df) = 2 /\ total_n = 1
    /\ df[1].stflife = 10 /\ df[2].stflife = -1
    /\ ChartValid(df[1]) /\ df[2].rlgblg = 1 /\ df[2].sclmeet = 1

\* C3: aggregate then reindex against the canonical axis gives exactly
\* len(axis) rows in axis order and no row outside the axis: 11 rows, one
\* per ESS year in ascending order, for Bulgaria and for Europe, whatever
\* years occur among the valid records; the ridgeline means reindexed on
\* edu_order have exactly 6 entries in edu_order order.
C3_ReindexGivesAxisRows ==
    /\ LifeAggregated =>
         \A full \in {avg_life_bg_full, avg_life_eu_full} :
            /\ Len(full) = 11
            /\ \A i \in 1..Len(full) : full[i].year = 2000 + 2 * i
    /\ RidgeAveraged =>
         /\ Len(avg_values) = 6
         /\ \A i \in 1..Len(avg_values) : avg_values[i].edu_label = edu_order[i]

\* the valid Bulgarian records lie in two years, the other nine have none
C3_Witness ==
    /\ script = "life" /\ pc = "aggregated"
    /\ avg_life_bg_full[1].stflife # NaN /\ avg_life_bg_full[2].stflife # NaN
    /\ avg_life_bg_full[3].stflife = NaN
    /\ \A i \in 1..Len(avg_life_eu_full) : avg_life_eu_full[i].stflife = NaN

\* the valid records of table t that belong to the ESS year y
ValidOfYear(t, y) ==
    LET In(r) == LifeValid(r) /\ r.essround \in 1..11 /\ 2000 + 2 * r.essround = y
    IN SelectSeq(t, In)
LabelYears(ls) == {ls[i].year : i \in 1..Len(ls)}

\* C4: a canonical-axis year without a valid record is reported with the
\* missing marker, never with 0: its row is present, its stflife is missing
\* and no value label is written for it; a year whose valid records average
\* 0 is reported as 0, which differs from the marker, and is labelled.
C4_NoDataIsNotZero ==
    /\ LifeAggregated =>
         \A side \in {<<df_bg, avg_life_bg_full>>, <<df_eu, avg_life_eu_full>>} :
            \A y \in {2000 + 2 * k : k \in 1..11} :
               LET used == ValidOfYear(side[1], y)
                   rows == {i \in 1..Len(side[2]) : side[2][i].year = y}
               IN /\ Cardinality(rows) = 1
                  /\ \A i \in rows :
                       /\ used = <<>> <=> isna(side[2][i].stflife)
                       /\ used = <<>> => side[2][i].stflife # Float(0)
                       /\ (used # <<>> /\ SumField(used, "stflife") = 0)
                             => side[2][i].stflife = Float(0)
    /\ (script = "life" /\ pc = "plotted") =>
         /\ LabelYears(data_labels.bg) =
               {y \in {2000 + 2 * k : k \in 1..11} : ValidOfYear(df_bg, y) # <<>>}
         /\ LabelYears(data_labels.eu) =
               {y \in {2000 + 2 * k : k \in 1..11} : ValidOfYear(df_eu, y) # <<>>}
         /\ Len(data_labels.bg) = Cardinality(LabelYears(data_labels.bg))
         /\ Len(data_labels.eu) = Cardinality(LabelYears(data_labels.eu))

\* 2002 averages 0 and is labelled, 2004 has no valid record and is not
C4_Witness ==
    /\ script = "life" /\ pc = "plotted"
    /\ avg_life_bg_full[1].stflife = Float(0)
    /\ avg_life_bg_full[2].stflife = NaN
    /\ Len(df_bg) = 2 /\ df_bg[2].essround = 2
    /\ data_labels.bg = <<[year |-> 2002, text |-> 0]>>

\* the records [{g:A,v:2},{g:A,v:4},{g:B,v:10}] with A, B, C the ESS rounds
\* 1, 2, 3, i.e. the first three entries 2002, 2004, 2006 of the axis
ExampleInput == <<[essround |-> 1, stflife |-> 2], [essround |-> 1, stflife |-> 4],
                  [essround |-> 2, stflife |-> 10]>>
RawLife(t) == [i \in 1..Len(t) |-> [essround |-> t[i].essround, stflife |-> t[i].stflife]]

\* C5: group-by mean plus reindex on the worked example gives, in this
\* order, A with mean 3 over 2 records, B with mean 10 over 1 record and C
\* with the no-data marker over 0 records; in general each group's mean is
\* the sum of the target over its contributing records divided by their
\* count.
C5_WorkedExample ==
    LifeAggregated =>
      /\ RawLife(df_bg) = ExampleInput =>
           /\ avg_life_bg_full[1] = [year |-> 2002, stflife |-> <<3, 1>>]
           /\ Len(ValidOfYear(df_bg, 2002)) = 2
           /\ avg_life_bg_full[2] = [year |-> 2004, stflife |-> <<10, 1>>]
           /\ Len(ValidOfYear(df_bg, 2004)) = 1
           /\ avg_life_bg_full[3] = [year |-> 2006, stflife |-> NaN]
           /\ Len(ValidOfYear(df_bg, 2006)) = 0
      /\ \A side \in {<<df_bg, avg_life_bg_full>>, <<df_eu, avg_life_eu_full>>} :
           \A i \in 1..Len(side[2]) :
              LET used == ValidOfYear(side[1], side[2][i].year)
                  m == side[2][i].stflife
              IN IF used = <<>> THEN m = NaN
                 ELSE m # NaN /\ m[2] > 0
                      /\ m[1] * Len(used) = SumField(used, "stflife") * m[2]

\* the worked example has been loaded and aggregated
C5_Witness ==
    /\ script = "life" /\ pc = "aggregated"
    /\ RawLife(df_bg) = ExampleInput
    /\ avg_life_bg_full[1].stflife = <<3, 1>>

\* C6: the N printed in the footnote (len(df_bg_clean)) equals the number of
\* Bulgarian records that contribute to some per-year mean of
\* avg_life_bg_full, also when records have an essround outside 1..11.
C6_NEqualsRecordsUsed ==
    (script = "life" /\ pc = "plotted") =>
        total_n = Cardinality({i \in 1..Len(df_bg_clean) :
                     \E j \in 1..Len(avg_life_bg_full) :
                        /\ notna(avg_life_bg_full[j].stflife)
                        /\ df_bg_clean[i].year = Val(avg_life_bg_full[j].year)})

SumCounts(cs) == SumField(cs, "n")

\* C7: a record contributes to a per-education aggregate iff it passes every
\* rule of clean_data: every record of df_clean belongs to exactly one
\* edu_label group, so the counts n of the labels sum to the N of the
\* footnote, len(self.data), also for records with eisced = 3.
C7_CountsSumToN ==
    RidgeCounted =>
        /\ Len(df_clean) = Count(df, RidgeValid)
        /\ \A r \in Rows(df_clean) :
             Cardinality({i \in 1..Len(group_counts) :
                             r.edu_label = Val(group_counts[i].edu_label)}) = 1
        /\ SumCounts(group_counts) = Len(df_clean)

OpenValid(r) ==
    /\ r.agea # 999 /\ r.rlgblg \in {1, 2}
    /\ r.ipcrtiv \in 1..6 /\ r.ipgdtim \in 1..6 /\ r.impdiff \in 1..6
    /\ r.ipadvnt \in 1..6 /\ r.impfun \in 1..6 /\ r.impfree \in 1..6
OpenItemNames == {"ipcrtiv", "ipgdtim", "impdiff", "ipadvnt", "impfun", "impfree"}
OpenOriginal == SelectSeq(df, OpenValid)

\* C8: reverse-coding is an involution on the valid scale: reverse_scale
\* replaces each openness item x by 7 - x, maps 1..6 onto itself, and applied
\* twice returns every item of every record of the filtered table to its
\* original value.
C8_ReverseIsInvolution ==
    (script = "openness" /\ pc \in {"filtered", "reversed"}) =>
        /\ {reverse_item(x) : x \in 1..6} = 1..6
        /\ Len(valid_df) = Len(OpenOriginal)
        /\ \A i \in 1..Len(valid_df) : \A c \in OpenItemNames :
             /\ valid_df[i][c] \in 1..6
             /\ reversals % 2 = 1 => valid_df[i][c] = 7 - OpenOriginal[i][c]
             /\ reversals % 2 = 0 => valid_df[i][c] = OpenOriginal[i][c]

\* reverse_scale has run twice on a record with the items 1,1,1,1,1,6
C8_Witness ==
    /\ script = "openness" /\ pc = "reversed" /\ reversals = 2
    /\ Len(valid_df) = 1
    /\ valid_df[1].ipcrtiv = 1 /\ valid_df[1].impfree = 6

SumItems(r) == r.ipcrtiv + r.ipgdtim + r.impdiff + r.ipadvnt + r.impfun + r.impfree

\* C9: reverse-coding and composite scores run strictly after filtering, so
\* no invalid code enters an average: every value averaged into openness is
\* 7 - x for an item x in 1..6 and openness lies in 1..6; power_avg and
\* hedonism_avg are means of two items in 1..6; no sentinel value is ever
\* reversed or averaged.
C9_DeriveAfterFilter ==
    /\ (script = "openness" /\ pc \in {"start", "loaded"}) => valid_df = None
    /\ (script = "openness" /\ pc \in {"reversed", "computed", "labelled", "plotted"}) =>
         /\ Len(valid_df) = Len(OpenOriginal)
         /\ \A i \in 1..Len(valid_df) : \A c \in OpenItemNames :
              /\ OpenOriginal[i][c] \in 1..6
              /\ valid_df[i][c] = 7 - OpenOriginal[i][c]
    /\ (script = "openness" /\ pc \in {"computed", "labelled", "plotted"}) =>
         \A i \in 1..Len(valid_df) :
            LET m == valid_df[i].openness IN
            /\ m # NaN /\ m[2] > 0
            /\ m[1] * 6 = (42 - SumItems(OpenOriginal[i])) * m[2]
            /\ m[2] <= m[1] /\ m[1] <= 6 * m[2]
    /\ (script = "ridge" /\ pc \in {"start", "loaded"}) => df_clean = None
    /\ (script = "ridge" /\ (pc = "constructed" \/ RidgeLabelled)) =>
         \A r \in Rows(df_clean) :
            /\ RidgeValid(r)
            /\ r.power_avg # NaN /\ r.power_avg[2] > 0
            /\ r.power_avg[1] * 2 = (r.imprich + r.iprspot) * r.power_avg[2]
            /\ r.hedonism_avg # NaN /\ r.hedonism_avg[2] > 0
            /\ r.hedonism_avg[1] * 2 = (r.ipgdtim + r.impfun) * r.hedonism_avg[2]

\* a record with the items 1,1,1,1,1,6 was reversed and averaged to 31/6
C9_Witness ==
    /\ script = "openness" /\ pc = "computed"
    /\ Len(valid_df) = 1 /\ valid_df[1].openness = <<31, 6>>

\* no record of the loaded input passes the validity rules of the script
\* (of an input table that has the columns the rules read)
NoValidRecord ==
    CASE IsChart -> /\ ChartColumns \subseteq Columns(df, ChartColumns)
                    /\ Count(df, ChartValid) = 0
      [] script = "life" -> Count(df_bg, LifeValid) = 0 /\ Count(df_eu, LifeValid) = 0
      [] script = "ridge" -> Count(df, RidgeValid) = 0
      [] script = "openness" -> /\ OpenColumns \subseteq Columns(df, OpenColumns)
                                /\ Count(df, OpenValid) = 0
AllMissing(full) == \A i \in 1..Len(full) : isna(full[i].stflife)

C10_EmptyResults ==
    (pc \notin {"start", "error"} /\ NoValidRecord) =>
      /\ ChartCleaned => df_chart = <<>>
      /\ ChartAggregated => grouped = <<>>
      /\ (script = "bar" /\ ChartAggregated) => DOMAIN means = {}
      /\ (IsChart /\ pc = "counted") => total_n = 0
      /\ LifePrepared => df_bg_clean = <<>> /\ df_eu_clean = <<>>
      /\ LifeAggregated =>
           /\ Len(avg_life_bg_full) = 11 /\ AllMissing(avg_life_bg_full)
           /\ Len(avg_life_eu_full) = 11 /\ AllMissing(avg_life_eu_full)
      /\ (script = "life" /\ pc = "plotted") =>
           total_n = 0 /\ data_labels = [bg |-> <<>>, eu |-> <<>>]
      /\ RidgeCleaned => df_clean = <<>>
      /\ (script = "openness" /\ pc \notin {"loaded"}) => valid_df = <<>>
      /\ (script = "openness" /\ pc = "plotted") => total_n = 0
      /\ pc # "done" => ENABLED Next

\* (the steps that draw the figure are not among these steps)
C10_NoRaise ==
    (pc \notin {"start", "error"} /\ NoValidRecord /\ ~(script = "ridge" /\ pc = "averaged"))
        => pc' # "error"

ReadCalls == {"read_csv(self.file_path)", "read_csv(self.bg_file)",
              "read_csv(self.eu_file)"}
LoadFailed == raised \in ReadCalls
\* no step after load_data has left a result
NoLaterStepRan ==
    /\ df_chart = None /\ grouped = None /\ means = None /\ total_n = None
    /\ df_bg_clean = None /\ df_eu_clean = None
    /\ avg_life_bg_full = None /\ avg_life_eu_full = None /\ data_labels = None
    /\ df_clean = None /\ column = None /\ group_counts = None /\ avg_values = None
    /\ valid_df = None /\ reversals = 0
    /\ xticks = None /\ avg_lines = None
    /\ avg_bg = None /\ avg_eu = None /\ comparison = None
C11_NothingAfterLoadError ==
    LoadFailed => pc = "error" /\ NoLaterStepRan /\ saved = {} /\ printed = <<>>

\* C11: a load error is fatal.  When load_data raises because an input file
\* cannot be read, no later step of the run executes (no filter, derive,
\* aggregate, plot or save), no image is written and no success message is
\* printed; in the life script this holds whether the Bulgaria file or the
\* Europe file is the unreadable one.
C11_LoadErrorIsFatal == [](C11_NothingAfterLoadError) /\ [][~LoadFailed]_vars

\* the Bulgaria file was read, the Europe file was not, and the run stopped
C11_Witness ==
    /\ script = "life" /\ pc = "error" /\ raised = "read_csv(self.eu_file)"
    /\ Len(df_bg) = 2 /\ df_eu = None
    /\ saved = {} /\ printed = <<>>
KeyErrors == {"KeyError in extract_variables", "KeyError in filter_data"}
\* the loaded table has no column for a field that the script reads
LacksColumn ==
    \/ IsChart /\ ~(ChartColumns \subseteq Columns(df, ChartColumns))
    \/ script = "openness" /\ ~(OpenColumns \subseteq Columns(df, OpenColumns))
C12_NoAggregateAfterKeyError ==
    raised \in KeyErrors =>
        /\ pc = "error" /\ LacksColumn
        /\ grouped = None /\ means = None /\ total_n = None
        /\ valid_df = None /\ saved = {} /\ printed = <<>>
C12_StepRaises ==
    /\ (pc = "loaded" /\ script \in {"bar", "line", "openness"} /\ LacksColumn)
          => pc' = "error" /\ raised' \in KeyErrors
    /\ raised \notin KeyErrors

\* C12: a missing source column aborts the run.  When the loaded table lacks
\* one of stflife, rlgblg, sclmeet (extract_variables of the chart scripts) or
\* one of agea, rlgblg and the six openness items (filter_data), the step
\* that needs the column raises, no step follows, neither the aggregate nor
\* N is produced, and the run never goes on with the records dropped.
C12_MissingColumnAborts ==
    [](C12_NoAggregateAfterKeyError) /\ [][C12_StepRaises]_vars

\* a one-row table without the sclmeet column stopped extract_variables
C12_Witness ==
    /\ script = "bar" /\ pc = "error" /\ raised = "KeyError in extract_variables"
    /\ Len(df) = 1 /\ "sclmeet" \notin DOMAIN df[1]
    /\ grouped = None /\ total_n = None
\* the string order of the labels of the religious column
LabelBefore(a, b) == a = "Non-religious" /\ b = "Religious"
\* the key of row a comes strictly before the key of row b
BarKeyBefore(a, b) ==
    \/ a.sclmeet < b.sclmeet
    \/ a.sclmeet = b.sclmeet /\ LabelBefore(a.religious, b.religious)
LineKeyBefore(a, b) ==
    \/ LabelBefore(a.religious, b.religious)
    \/ a.religious = b.religious /\ a.sclmeet < b.sclmeet
\* the valid records of the loaded table with the key of the grouped row g
ValidOfKey(g) ==
    LET In(r) == ChartValid(r) /\ r.sclmeet = g.sclmeet
                 /\ (r.rlgblg = 1 <=> g.religious = "Religious")
    IN SelectSeq(df, In)

\* C13: without a canonical axis the aggregate rows are in ascending key
\* order, one row per key combination that occurs among the valid records:
\* grouped is strictly ascending by (sclmeet, religious) in the bar chart
\* script and by (religious, sclmeet) in the line chart script, so no
\* combination appears twice, and the stflife of each row is the mean over
\* exactly the valid records with that combination.
C13_AscendingKeyOrder ==
    ChartAggregated =>
        /\ \A i, j \in 1..Len(grouped) :
             i < j => IF script = "bar" THEN BarKeyBefore(grouped[i], grouped[j])
                      ELSE LineKeyBefore(grouped[i], grouped[j])
        /\ {<<g.sclmeet, g.religious>> : g \in Rows(grouped)} =
              {<<r.sclmeet, IF r.rlgblg = 1 THEN "Religious" ELSE "Non-religious">> :
                  r \in {x \in Rows(df) : ChartValid(x)}}
        /\ \A g \in Rows(grouped) :
             /\ g.religious \in {"Religious", "Non-religious"}
             /\ ValidOfKey(g) # <<>>
             /\ g.stflife # NaN /\ g.stflife[2] > 0
             /\ g.stflife[1] * Len(ValidOfKey(g)) =
                   SumField(ValidOfKey(g), "stflife") * g.stflife[2]

\* a religious record with sclmeet 1 and a non-religious one with sclmeet 7:
\* the line chart script puts the non-religious row first
C13_Witness ==
    /\ script = "line" /\ pc = "aggregated" /\ Len(grouped) = 2
    /\ grouped[1].religious = "Non-religious" /\ grouped[1].sclmeet = 7
    /\ grouped[2].religious = "Religious" /\ grouped[2].sclmeet = 1
    /\ df[1].sclmeet = 7 /\ df[2].sclmeet = 1
\* the position of a run in its main script
PcRank ==
    CASE pc = "start" -> 0 [] pc = "loaded" -> 1
      [] pc \in {"extracted", "prepared"} -> 2
      [] pc = "cleaned" -> 3
      [] pc = "aggregated" -> IF script = "life" THEN 3 ELSE 4
      [] pc = "counted" -> 5
      [] pc = "plotted" -> 4
      [] pc = "customized" -> 6
      [] pc = "saved" -> IF script = "life" THEN 5 ELSE 7
      [] pc = "done" -> IF script = "life" THEN 6 ELSE 8
      [] pc = "error" -> 9
\* a second run on the same input ended like the first one, with the same
\* aggregate rows in the same order, the same N and the same other outputs
SameAsFirstRun ==
    (Len(first_run) = 1 /\ pc \in {"done", "error"}) => outputs = first_run[1]
\* a run stops only at the end of its main script or at an exception
StopsOnlyAtEnd == pc \notin {"done", "error"} => ENABLED NextRerun
\* every step of a run moves it forward in its main script
MovesForward ==
    \/ first_run' # first_run
    \/ PcRank' > PcRank
NoAbortOnceLoaded == pc # "start" => pc' # "error"
NoAbortWithColumns == (pc # "start" /\ ~LacksColumn) => pc' # "error"

C15_DeriveOnlyOnValid ==
    /\ ChartCleaned =>
         LET t == SelectColumns(df, ChartColumns)
             labelled == IF script = "bar" THEN bar_applied(t) ELSE line_applied(t)
         IN \A r \in Rows(labelled) :
               notna(r.religious) => between(r.sclmeet, 1, 7)
    /\ LifePrepared =>
         \A r \in Rows(df_bg) \cup Rows(df_eu) :
            notna(r.year) => between(r.stflife, 0, 10)

\* C16: categories absent from the data still appear in the aggregate
\* output.  In the bar and line chart scripts grouped has an entry for each
\* of the 7 socializing categories with each religious group, its mean being
\* the no-data marker exactly when no valid record has the combination, and
\* the k-th tick label stands at sclmeet category k.
C16_AbsentCategoriesAppear ==
    /\ ChartAggregated =>
         \A k \in 1..Len(x_labels), l \in {"Non-religious", "Religious"} :
            \E i \in 1..Len(grouped) :
               /\ grouped[i].sclmeet = k /\ grouped[i].religious = l
               /\ isna(grouped[i].stflife) <=>
                     ~\E r \in Rows(df_chart) :
                         r.sclmeet = k /\ r.religious = Val(l)
    /\ (IsChart /\ pc \in {"customized", "saved", "done"}) =>
         \A k \in 1..Len(x_labels) : xticks[k].sclmeet = Val(k)

KdeFailed == raised = "gaussian_kde(subset, bw_method=0.25)"
\* C17: the renderer tolerates empty groups.  When an education category of
\* edu_order has no valid record (its reindexed mean is the no-data marker,
\* also when the whole cleaned table is empty), RidgePlotter.create_plot
\* does not raise, and the average lines it has drawn are those of the
\* categories that have a mean.
C17_EmptyGroupsTolerated ==
    /\ (script = "ridge" /\ (RidgeAveraged \/ KdeFailed)
           /\ \E i \in 1..Len(avg_values) : isna(avg_values[i].value))
         => raised = None
    /\ (script = "ridge" /\ pc \in {"plotted", "saved", "done"}) =>
         LET Has(e) == notna(e.value) IN avg_lines = SelectSeq(avg_values, Has)

ProcLabelled == script = "openness_proc"
                /\ pc \in {"labelled", "counted", "plotted", "plotted_bw", "done"}
\* C18: the class-based openness pipeline and the procedural script are
\* equivalent.  On the same input table the procedural steps leave the same
\* table valid_df as load_data().filter_data().reverse_scale()
\* .compute_openness().add_religion_label(): the same surviving records in
\* the same order with the same reversed item values, openness score and
\* religion label, and the same N for the footnote; and one of them stops
\* at a KeyError exactly when the other one does.
C18_OpennessScriptsAgree ==
    script = "openness_proc" =>
        /\ ProcLabelled => valid_df = first_run[1].valid_df
        /\ (ProcLabelled /\ pc # "labelled") => total_n = first_run[1].total_n
        /\ pc = "error" => first_run[1].pc = "error"
        /\ first_run[1].pc = "error" => pc \in {"loaded", "error"}

\* both scripts have run on a table with a valid record
C18_Witness ==
    /\ script = "openness_proc" /\ pc = "done"
    /\ Len(valid_df) = 1 /\ total_n = 1
    /\ valid_df[1].religion = Val("Non-religious")

InspectAveraged == script = "inspect" /\ pc \in {"averaged", "compared", "done"}
InspectCompared == script = "inspect" /\ pc \in {"compared", "done"}
\* the year has no row in the comparison table, or a row without a value
NotInComparison(y) ==
    \A i \in 1..Len(comparison) :
       comparison[i].year = y => isna(comparison[i].Bulgaria) /\ isna(comparison[i].Europe)
\* C19: inspect_data.py and DataManager agree on the per-year means.  For
\* each of the 11 ESS years the unrounded mean of inspect_data for Bulgaria
\* and for Europe is the value of avg_life_bg_full / avg_life_eu_full for
\* that year (missing in both or in neither), inspect_data has a mean for no
\* other year, and a year is missing from or empty in its comparison table
\* exactly when DataManager marks it no-data for Bulgaria and for Europe.
C19_InspectAgrees ==
    /\ InspectAveraged =>
         /\ \A i \in 1..11 :
               LET bg == first_run[1].avg_life_bg_full[i]
                   eu == first_run[1].avg_life_eu_full[i]
               IN /\ series_at(avg_bg, bg.year) = bg.stflife
                  /\ series_at(avg_eu, eu.year) = eu.stflife
         /\ \A e \in Range(avg_bg) \cup Range(avg_eu) :
               \E i \in 1..11 : first_run[1].avg_life_bg_full[i].year = e.year
    /\ InspectCompared =>
         \A i \in 1..11 :
            LET bg == first_run[1].avg_life_bg_full[i]
                eu == first_run[1].avg_life_eu_full[i]
            IN NotInComparison(bg.year) <=> (isna(bg.stflife) /\ isna(eu.stflife))

\* Europe alone has a valid record in 2002 and Bulgaria alone in 2004
C19_Witness ==
    /\ script = "inspect" /\ pc = "done" /\ Len(comparison) = 2
    /\ isna(comparison[1].Bulgaria) /\ notna(comparison[1].Europe)
    /\ notna(comparison[2].Bulgaria) /\ isna(comparison[2].Europe)

\* the valid records of the loaded table whose rlgblg code has the label l
ValidOfLabel(l) ==
    LET In(r) == ChartValid(r) /\ r.rlgblg = (IF l = "Religious" THEN 1 ELSE 2)
    IN SelectSeq(df, In)
\* C20: the bar chart and line chart pipelines agree.  On the same input
\* table both keep the same records after clean_data, report the same N and
\* have the same set of (sclmeet, religious, mean stflife) rows in grouped
\* (as many rows, in a different order); one stops at the KeyError exactly
\* when the other does; and means[religious] of the bar chart script is the
\* mean over all valid records of that religious group.
C20_ChartScriptsAgree ==
    /\ (script = "line" /\ first_run # <<>>) =>
         /\ ChartCleaned => df_chart = first_run[1].df_chart
         /\ ChartAggregated =>
              /\ Range(grouped) = Range(first_run[1].grouped)
              /\ Len(grouped) = Len(first_run[1].grouped)
         /\ (ChartAggregated /\ pc # "aggregated") => total_n = first_run[1].total_n
         /\ pc = "error" => first_run[1].pc = "error"
         /\ first_run[1].pc = "error" => pc \in {"loaded", "error"}
    /\ (script = "bar" /\ ChartAggregated) =>
         /\ DOMAIN means = {l \in {"Non-religious", "Religious"} : ValidOfLabel(l) # <<>>}
         /\ \A l \in DOMAIN means :
               means[l] = Frac(SumField(ValidOfLabel(l), "stflife"), Len(ValidOfLabel(l)))

\* three valid religious records, two of one socializing category and one of
\* another: the group's mean 10/3 is not the mean 5 of its category means
C20_Witness ==
    /\ script = "line" /\ pc = "done" /\ total_n = 3 /\ Len(grouped) = 2
    /\ first_run[1].means = [l \in {"Religious"} |-> <<10, 3>>]
    /\ grouped[1].stflife # grouped[2].stflife

\* table b has the rows of table a in their order, and each row differs from
\* its row of a in the fields cols at most
WritesOnly(a, b, cols) ==
    /\ Len(b) = Len(a)
    /\ \A i \in 1..Len(a) :
         /\ DOMAIN a[i] \subseteq DOMAIN b[i]
         /\ DOMAIN b[i] \subseteq DOMAIN a[i] \cup cols
         /\ \A c \in DOMAIN a[i] \ cols : b[i][c] = a[i][c]
\* C21: derive steps never add, drop or reorder records and change only
\* their own target fields.  Called in any order after filter_data,
\* reverse_scale writes only the six openness items, compute_openness only
\* openness and add_religion_label only religion, so the number of records
\* (get_total_observations) and agea and rlgblg of every record stay as they
\* are; construct_values writes only power_avg and hedonism_avg and
\* apply_education_labels only edu_label, so the rows of df_clean, their
\* four raw items and eisced stay as they are.
C21_DeriveWritesOwnFields ==
    [][/\ open_reverse_scale_call =>
            WritesOnly(valid_df, valid_df', Range(OPENNESS_ITEMS))
       /\ open_compute_openness_call =>
            WritesOnly(valid_df, valid_df', {"openness"})
       /\ open_add_religion_label_call =>
            WritesOnly(valid_df, valid_df', {"religion"})
       /\ ridge_construct =>
            WritesOnly(df_clean, df_clean', {"power_avg", "hedonism_avg"})
       /\ ridge_apply_labels =>
            WritesOnly(df_clean, df_clean', {"edu_label"})]_vars

\* two records of different age went through reverse_scale twice,
\* compute_openness and add_religion_label
C21_Witness ==
    /\ script = "openness" /\ reversals = 2 /\ Len(valid_df) = 2
    /\ valid_df[1].agea # valid_df[2].agea
    /\ DOMAIN valid_df[1] = OpenColumns \cup {"openness", "religion"}

\* C22: the filter, derive and aggregate steps leave the loaded raw table
\* unchanged.  In every script each step after load_data leaves self.df (and
\* self.df_bg, self.df_eu of DataManager) with the same rows, the same
\* columns and the same values; only the working tables are written.
C22_RawTableUnchanged ==
    [][pc # "start" => (df' = df /\ df_bg' = df_bg /\ df_eu' = df_eu)]_vars

====
